---- MODULE Spec2Model ----
(***************************************************************************)
(* A model of the rTorrent download engine (librtorrent).                  *)
(*                                                                         *)
(* Spec      : the piece manager (piece_manager.rs) shared by concurrent   *)
(*             workers that follow the work loop get_next_piece ->         *)
(*             add_piece | cancel_piece.  Every step of an operation is    *)
(*             one critical section of the code (a lock held) or one file  *)
(*             operation.                                                  *)
(* SpecRace  : the same piece manager under one more worker, every peer    *)
(*             holding every piece and delivering the content, and no file *)
(*             operation failing.                                          *)
(* SpecCodec : Message::to_bytes and Message::from_bytes (message.rs) on   *)
(*             messages of every variant and on truncated buffers.         *)
(* SpecHandshake : Handshake::to_bytes, from_bytes and is_valid           *)
(*             (handshake.rs) on handshakes of bytes.                      *)
(* SpecBencode : encode and decode_to_vec (bencode.rs) on values of every  *)
(*             variant and on buffers encode did not write.                *)
(* SpecMeta  : Torrent::from_file and the from_bencodemap functions        *)
(*             (torrent.rs, meta_info.rs) on torrent files and info        *)
(*             dictionaries.                                               *)
(* SpecPeers : the peer workers spawned by connect_to_peers                *)
(*             (peer_manager.rs, torrent.rs) driving Peer::connect,        *)
(*             send_bitfield and download_piece (peer.rs).                 *)
(***************************************************************************)
EXTENDS Integers, Sequences, FiniteSets, TLC

(***************************************************************************)
(* Bounds of the model.                                                    *)
(***************************************************************************)
\* number of workers sharing the piece manager
NumWorkers == 2
\* number of pieces of the torrent (length of the `pieces` hash list)
NumPieces == 2
\* bytes per piece (meta_info.info.piece_length)
PieceLength == 2
\* largest byte value of the piece data alphabet
MaxByte == 1

\* piece_manager.rs:17, scaled to the piece sizes of the model: the flush
\* starts once this many Completed bytes are held in memory
SAVE_BYTES_THRESHOLD == 3

Workers == 1..NumWorkers
\* the workers of SpecRace: one more
AllWorkers == 1..(NumWorkers + 1)
Byte == 0..MaxByte
\* Option<usize>::None of get_next_piece, and "no index" of a worker
None == -1
NoBytes == << >>

(***************************************************************************)
(* The torrent: the last piece is one byte short of piece_length.          *)
(***************************************************************************)
piece_length == PieceLength
total_length == NumPieces * PieceLength - 1

\* PieceManager::meta_info_to_bitfield: the piece count and the byte count
num_pieces == (total_length + piece_length - 1) \div piece_length
num_bytes == (num_pieces + 7) \div 8

\* every index the bitfield has a bit for (spare bits of the last byte too)
Indices == 0..(8 * num_bytes - 1)

RECURSIVE SumSeq(_)
SumSeq(s) == IF s = << >> THEN 0 ELSE Head(s) + SumSeq(Tail(s))

\* Sha1::digest, abstracted: equal bytes have equal digests, and different
\* bytes of equal length and sum collide
SHA1(b) == <<Len(b), SumSeq(b)>>

\* length of piece i of the content
PieceLen(i) == IF (i + 1) * piece_length <= total_length
               THEN piece_length
               ELSE total_length - i * piece_length

\* the bytes of piece i of the content the torrent describes
Content(i) == [k \in 1..PieceLen(i) |-> (i + k) % (MaxByte + 1)]

\* TorrentInfo::get_piece_hashes: one expected hash per piece
piece_hashes == [i \in 0..(NumPieces - 1) |-> SHA1(Content(i))]

\* the bytes b have the hash the torrent expects of piece i
HashMatches(i, b) == i \in DOMAIN piece_hashes /\ SHA1(b) = piece_hashes[i]

\* byte strings a peer can deliver for a piece
PieceBytes == UNION {[1..n -> Byte] : n \in 1..piece_length}

(***************************************************************************)
(* Bitfields: sequences of bytes, bit 0 is the high bit of byte 1.         *)
(***************************************************************************)
Min(a, b) == IF a < b THEN a ELSE b

\* mask = 1 << (7 - bit_index); byte & mask != 0
BitOf(byte, bit_index) == (byte \div (2 ^ (7 - bit_index))) % 2

HasBit(bf, k) ==
    /\ (k \div 8) + 1 <= Len(bf)
    /\ BitOf(bf[(k \div 8) + 1], k % 8) = 1

\* byte |= mask
OrMask(byte, bit_index) ==
    IF BitOf(byte, bit_index) = 1 THEN byte ELSE byte + 2 ^ (7 - bit_index)

RECURSIVE ByteOf(_)
ByteOf(S) == IF S = {} THEN 0
             ELSE LET k == CHOOSE x \in S : TRUE
                  IN  2 ^ (7 - k) + ByteOf(S \ {k})

\* bitfields a peer advertises: any pieces, and the first spare bit
TheirBitfields == {<<ByteOf(S)>> : S \in SUBSET (0..NumPieces)}

(***************************************************************************)
(* PieceStatus                                                             *)
(***************************************************************************)
Absent == [tag |-> "Absent", bytes |-> NoBytes]
NotStarted == [tag |-> "NotStarted", bytes |-> NoBytes]
InProgress == [tag |-> "InProgress", bytes |-> NoBytes]
OnDisk == [tag |-> "OnDisk", bytes |-> NoBytes]
Completed(b) == [tag |-> "Completed", bytes |-> b]

VARIABLES
    bitfield,   \* PieceManager.bitfield (RwLock<BytesMut>)
    piece_map,  \* PieceManager.piece_map (Mutex<HashMap<usize, PieceStatus>>)
    file,       \* the output file "result.iso": [exists, data]
    pc,         \* where each worker is
    held,       \* the index get_next_piece returned to the worker, or None
    their,      \* get_next_piece: their_bitfield of the running scan
    pos,        \* get_next_piece: next bit position of the running scan
    index,      \* save_to_disk: the loop index
    buf,        \* save_to_disk: the cloned bytes of the piece being written
    ret,        \* the last call each worker made and what it returned
    added,      \* history: indices for which add_piece has returned true
    io_ok,      \* history: indices whose file range saw bytes of the expected hash
    completed_at_call \* history: the Completed pieces <<i, bytes>> at the time
                \* the save_to_disk call a worker is running was made

pmvars == <<bitfield, piece_map, file, pc, held, their, pos, index, buf, ret,
            added, io_ok, completed_at_call>>

VARIABLES
    wpc,          \* where each peer worker task is
    socket,       \* Peer.socket is Some
    block_index,  \* download_piece: the block loop counter
    remaining,    \* download_piece: bytes still to request
    piece_buffer, \* download_piece: the bytes collected so far
    res,          \* download_piece: the reply send_message returned
    requests,     \* the Request payloads <<index, begin, length>> sent so far
    cancel_calls, \* the indices each worker task has called cancel_piece for
    err,          \* the ConnectionErr each worker task ended with, or "none"
    remote_hs,    \* connect: the handshake read from the peer, or NoHandshake
    supervisor    \* connect_to_peers after the spawns: [pc, handle]

peervars == <<wpc, socket, block_index, remaining, piece_buffer, res, requests,
              cancel_calls, err, remote_hs, supervisor>>

VARIABLES
    codec_pc,  \* where the message codec run is
    message,   \* the Message given to to_bytes
    wire,      \* the buffer given to from_bytes
    parsed     \* what from_bytes returned

codecvars == <<codec_pc, message, wire, parsed>>

VARIABLES
    hs_pc,      \* where the handshake run is
    handshake,  \* the Handshake (self) given to to_bytes and is_valid
    other_hs,   \* is_valid: the other Handshake
    hs_bytes,   \* the buffer given to Handshake::from_bytes
    hs_result   \* what from_bytes or is_valid returned

hsvars == <<hs_pc, handshake, other_hs, hs_bytes, hs_result>>

VARIABLES
    ben_pc,     \* where the bencode run is
    ben_value,  \* the BencodeType given to encode
    encoded,    \* the buffer encode wrote, or the one read from a file
    decoded,    \* what decode_to_vec returned
    reencoded   \* the buffer encode wrote for the decoded value

benvars == <<ben_pc, ben_value, encoded, decoded, reencoded>>

VARIABLES
    meta_pc,     \* where the metadata run is
    contents,    \* Torrent::from_file: the bytes of the torrent file
    info_map,    \* the BencodeMap given to TorrentInfo::from_bencodemap
    meta_result, \* what from_file or from_bencodemap returned
    hash_input,  \* the bytes the info-hash was taken of
    hash         \* MetaInfo.hash: the info-hash

metavars == <<meta_pc, contents, info_map, meta_result, hash_input, hash>>

VARIABLES
    st_pc,       \* where the worker of the byte stream is
    st_inflight, \* the bytes the peer has written and the worker has not read
    st_sent,     \* history: the messages the peer has written
    st_closed,   \* the peer has closed the connection
    st_parsed,   \* history: the messages Message::from_bytes returned
    st_written,  \* history: the messages the worker has written
    st_block,    \* download_piece: the block loop counter
    st_buffer,   \* download_piece: the bytes collected so far
    st_res       \* download_piece: the reply send_message returned

streamvars == <<st_pc, st_inflight, st_sent, st_closed, st_parsed, st_written,
                st_block, st_buffer, st_res>>

VARIABLES
    blk_pc,           \* where the run of the block loop is
    blk_piece_length, \* the piece length of the torrent
    blk_total_length, \* the total length of the torrent
    blk_index,        \* download_piece: block_index
    blk_remaining,    \* download_piece: remaining
    blk_requests      \* the Request payloads <<index, begin, length>> sent

blockvars == <<blk_pc, blk_piece_length, blk_total_length, blk_index, blk_remaining,
               blk_requests>>

wirevars == <<streamvars, blockvars>>

datavars == <<hsvars, benvars, metavars, wirevars>>

vars == <<pmvars, peervars, codecvars, datavars>>

(***************************************************************************)
(* The output file.                                                        *)
(***************************************************************************)
NoFile == [exists |-> FALSE, data |-> << >>]

\* file.seek(Start(offset)); file.read_exact(buf of n bytes): the bytes, or
\* << >> for the UnexpectedEof error (n is at least 1)
ReadExact(data, offset, n) ==
    IF offset + n <= Len(data) THEN SubSeq(data, offset + 1, offset + n)
    ELSE << >>

\* file.seek(Start(offset)); file.write_all(b): a gap past the end reads 0
WriteAt(data, offset, b) ==
    [k \in 1..(IF Len(data) > offset + Len(b) THEN Len(data) ELSE offset + Len(b)) |->
        IF k > offset /\ k <= offset + Len(b) THEN b[k - offset]
        ELSE IF k <= Len(data) THEN data[k]
        ELSE 0]

(***************************************************************************)
(* PieceManager, the pure parts.                                           *)
(***************************************************************************)
\* a mutant: every delivered piece passes the check
is_piece_valid_any(piece_index, piece) == TRUE

\* a mutant: the hash is compared with the one of piece 0, whatever the index
is_piece_valid_first(piece_index, piece) == SHA1(piece) = piece_hashes[0]

\* PieceManager::is_piece_valid
is_piece_valid(piece_index, piece) ==
    IF piece_index \in DOMAIN piece_hashes
    THEN SHA1(piece) = piece_hashes[piece_index]
    ELSE FALSE

\* a mutant: the bit is counted from the low end of the byte
set_bit_low_first(bf, idx) ==
    [bf EXCEPT ![(idx \div 8) + 1] = OrMask(@, 7 - (idx % 8))]

\* a mutant: the byte is assigned the mask instead of or-ed with it
set_bit_assign(bf, idx) ==
    [bf EXCEPT ![(idx \div 8) + 1] = OrMask(0, idx % 8)]

\* PieceManager::update_bitfield: bitfield[index / 8] |= 1 << (7 - index % 8)
set_bit(bf, idx) ==
    [bf EXCEPT ![(idx \div 8) + 1] = OrMask(@, idx % 8)]

\* get_next_piece, the match on map.get(&piece_index): the arms that continue
skips(status) == status.tag \in {"InProgress", "Completed"}

\* get_next_piece: diff = (!my_byte) & their_byte; diff & mask != 0
DiffBit(bf, tb, k) == ~HasBit(bf, k) /\ HasBit(tb, k)

\* get_next_piece: the next bit position at or after `from` whose diff bit
\* is set, over the bytes both bitfields have (zip), or None
NextCandidate(bf, tb, from) ==
    LET K == {k \in from..(8 * Min(Len(bf), Len(tb)) - 1) : DiffBit(bf, tb, k)}
    IN  IF K = {} THEN None ELSE CHOOSE k \in K : \A j \in K : k <= j

\* PieceManager::cancel_piece: the entry after and_modify / or_insert
cancel_status(status) ==
    IF status.tag = "Absent" THEN NotStarted
    ELSE IF status.tag # "Completed" THEN NotStarted
    ELSE status

\* PieceManager::should_save
should_save(map) ==
    LET present == {i \in DOMAIN map : map[i].tag # "Absent"}
        RECURSIVE Sum(_)
        Sum(S) == IF S = {} THEN 0
                  ELSE LET i == CHOOSE x \in S : TRUE
                       IN  (IF map[i].tag = "Completed" THEN Len(map[i].bytes) ELSE 0)
                           + Sum(S \ {i})
        bytes_in_ram == Sum(present)
        all_pieces_ready == \A i \in present : map[i].tag \in {"Completed", "OnDisk"}
    IN  bytes_in_ram >= SAVE_BYTES_THRESHOLD \/ all_pieces_ready

\* PieceManager::load_pieces from piece `i` on: the state map, the bitfield
\* and the verified pieces after the loop ends or read_exact fails
RECURSIVE LoadFrom(_, _, _)
LoadFrom(i, data, st) ==
    IF i >= NumPieces THEN st
    ELSE LET b == ReadExact(data, i * piece_length, piece_length)
         IN  IF b = << >> THEN st
             ELSE IF is_piece_valid(i, b)
                  THEN LoadFrom(i + 1, data,
                                [map |-> [st.map EXCEPT ![i] = OnDisk],
                                 bf |-> set_bit(st.bf, i),
                                 ok |-> IF HashMatches(i, b) THEN st.ok \cup {i}
                                        ELSE st.ok])
                  ELSE LoadFrom(i + 1, data, st)

\* PieceManager::new: an empty bitfield and map, then load_pieces (which
\* fails at File::open when there is no file)
new(f) ==
    LET fresh == [map |-> [i \in Indices |-> Absent],
                  bf |-> [k \in 1..num_bytes |-> 0],
                  ok |-> {}]
    IN  IF f.exists THEN LoadFrom(0, f.data, fresh) ELSE fresh

\* the output file a run can start with: none, or the first piece of an
\* earlier run
InitFiles == {NoFile, [exists |-> TRUE, data |-> Content(0)]}

NoRet == [op |-> "none", idx |-> None, val |-> FALSE, hash_equal |-> FALSE]

PMInit ==
    /\ file \in InitFiles
    /\ bitfield = new(file).bf
    /\ piece_map = new(file).map
    /\ io_ok = new(file).ok
    /\ added = {}
    /\ pc = [c \in AllWorkers |-> "idle"]
    /\ held = [c \in AllWorkers |-> None]
    /\ their = [c \in AllWorkers |-> << >>]
    /\ pos = [c \in AllWorkers |-> 0]
    /\ index = [c \in AllWorkers |-> 0]
    /\ buf = [c \in AllWorkers |-> NoBytes]
    /\ ret = [c \in AllWorkers |-> NoRet]
    /\ completed_at_call = [c \in AllWorkers |-> {}]


(***************************************************************************)
(* PieceManager, the operations.  A worker is idle, inside get_next_piece  *)
(* ("scan"), downloading the piece it was handed, inside add_piece         *)
(* ("add_*", "save_*") or ended by the panic of add_piece's unwrap.        *)
(***************************************************************************)
InCall(c) == pc[c] \notin {"idle", "downloading", "panicked"}

\* the pieces that are Completed in memory, with their bytes
CompletedNow ==
    {<<i, piece_map[i].bytes>> : i \in {j \in Indices : piece_map[j].tag = "Completed"}}

\* the bitfield read guard of get_next_piece lives until the scan returns
ReadLocked == \E c \in AllWorkers : pc[c] = "scan"

\* a mutant: the guard of save_to_disk's first critical section lives on
\* over the seek and the write
HeldAt_over_write(p) ==
    CASE p = "scan" -> {"bitfield"}
      [] p = "save_write" -> {"piece_map"}
      [] OTHER -> {}

\* a mutant: add_piece keeps its guard on the state map over update_bitfield
HeldAt_over_update(p) ==
    CASE p = "scan" -> {"bitfield"}
      [] p = "add_bitfield" -> {"piece_map"}
      [] OTHER -> {}

\* the locks whose guard is alive while a worker waits at position p, from
\* the scopes of the guards: get_next_piece keeps the bitfield read guard for
\* its whole loop, add_piece and save_to_disk take the state map in blocks
\* that end before the next await, update_bitfield and should_save release
\* on return
HeldAt(p) ==
    CASE p = "scan" -> {"bitfield"}
      [] OTHER -> {}

\* self.piece_map.lock() returns for worker c: no other worker's guard on
\* the state map is alive
MapFree(c) == \A d \in AllWorkers \ {c} : "piece_map" \notin HeldAt(pc[d])

\* a worker suspended on a file operation of save_to_disk: open, seek and
\* write_all, or sync_all after the loop
OnFileIO(c) ==
    \/ pc[c] \in {"save_open", "save_write"}
    \/ pc[c] = "save_read" /\ index[c] >= NumPieces

\* a worker inside save_to_disk
Flushing(c) == pc[c] \in {"save_open", "save_read", "save_write", "save_mark"}

\* get_next_piece from bit position `from` on, up to and including the
\* next critical section on the state map: the candidate is looked up with
\* the map locked and either skipped or marked InProgress and returned
ScanStep(c, tb, from) ==
    LET k == NextCandidate(bitfield, tb, from)
    IN  IF k = None
        THEN /\ pc' = [pc EXCEPT ![c] = "idle"]
             /\ ret' = [ret EXCEPT ![c] = [NoRet EXCEPT !.op = "get_next_piece"]]
             /\ their' = [their EXCEPT ![c] = << >>]
             /\ pos' = [pos EXCEPT ![c] = 0]
             /\ UNCHANGED <<piece_map, held>>
        ELSE IF skips(piece_map[k])
        THEN IF NextCandidate(bitfield, tb, k + 1) = None
             THEN /\ pc' = [pc EXCEPT ![c] = "idle"]
                  /\ ret' = [ret EXCEPT ![c] = [NoRet EXCEPT !.op = "get_next_piece"]]
                  /\ their' = [their EXCEPT ![c] = << >>]
                  /\ pos' = [pos EXCEPT ![c] = 0]
                  /\ UNCHANGED <<piece_map, held>>
             ELSE /\ pc' = [pc EXCEPT ![c] = "scan"]
                  /\ ret' = [ret EXCEPT ![c] = NoRet]
                  /\ their' = [their EXCEPT ![c] = tb]
                  /\ pos' = [pos EXCEPT ![c] = k + 1]
                  /\ UNCHANGED <<piece_map, held>>
        ELSE /\ piece_map' = [piece_map EXCEPT ![k] = InProgress]
             /\ pc' = [pc EXCEPT ![c] = "downloading"]
             /\ held' = [held EXCEPT ![c] = k]
             /\ ret' = [ret EXCEPT ![c] =
                            [NoRet EXCEPT !.op = "get_next_piece", !.idx = k, !.val = TRUE]]
             /\ their' = [their EXCEPT ![c] = << >>]
             /\ pos' = [pos EXCEPT ![c] = 0]

\* PieceManager::get_next_piece, called by an idle worker
GetNextPiece(c, tb) ==
    /\ pc[c] = "idle"
    /\ MapFree(c)
    /\ ScanStep(c, tb, 0)
    /\ UNCHANGED <<bitfield, file, index, buf, added, io_ok,
                   completed_at_call, peervars, codecvars, datavars>>

\* PieceManager::get_next_piece, the scan going on after a skipped index
GetNextPieceScan(c) ==
    /\ pc[c] = "scan"
    /\ MapFree(c)
    /\ ScanStep(c, their[c], pos[c])
    /\ UNCHANGED <<bitfield, file, index, buf, added, io_ok,
                   completed_at_call, peervars, codecvars, datavars>>

\* PieceManager::add_piece(held index, bytes): the hash check and the first
\* critical section on the state map
AddPiece(c, bytes) ==
    /\ pc[c] = "downloading"
    /\ MapFree(c)
    /\ LET i == held[c]
           eq == HashMatches(i, bytes)
       IN  IF is_piece_valid(i, bytes)
           THEN /\ piece_map' = [piece_map EXCEPT ![i] = Completed(bytes)]
                /\ pc' = [pc EXCEPT ![c] = "add_bitfield"]
                /\ ret' = [ret EXCEPT ![c] = [NoRet EXCEPT !.hash_equal = eq]]
                /\ UNCHANGED held
           ELSE /\ piece_map' = [piece_map EXCEPT ![i] = NotStarted]
                /\ pc' = [pc EXCEPT ![c] = "idle"]
                /\ held' = [held EXCEPT ![c] = None]
                /\ ret' = [ret EXCEPT ![c] =
                               [op |-> "add_piece", idx |-> i, val |-> FALSE,
                                hash_equal |-> eq]]
    /\ UNCHANGED <<bitfield, file, their, pos, index, buf, added, io_ok,
                   completed_at_call, peervars, codecvars, datavars>>

\* add_piece: self.update_bitfield(index), under the bitfield write lock
UpdateBitfield(c) ==
    /\ pc[c] = "add_bitfield"
    /\ ~ReadLocked
    /\ bitfield' = set_bit(bitfield, held[c])
    /\ pc' = [pc EXCEPT ![c] = "add_should_save"]
    /\ UNCHANGED <<piece_map, file, held, their, pos, index, buf, ret, added, io_ok,
                   completed_at_call, peervars, codecvars, datavars>>

\* what add_piece leaves when it returns true
AddPieceReturns(c) ==
    /\ pc' = [pc EXCEPT ![c] = "idle"]
    /\ ret' = [ret EXCEPT ![c] = [@ EXCEPT !.op = "add_piece", !.idx = held[c],
                                            !.val = TRUE]]
    /\ added' = added \cup {held[c]}
    /\ held' = [held EXCEPT ![c] = None]
    /\ index' = [index EXCEPT ![c] = 0]
    /\ buf' = [buf EXCEPT ![c] = NoBytes]
    /\ completed_at_call' = [completed_at_call EXCEPT ![c] = {}]

\* what the panic of save_to_disk().await.unwrap() leaves: the worker task
\* ends inside add_piece, which never returns
AddPiecePanics(c) ==
    /\ pc' = [pc EXCEPT ![c] = "panicked"]
    /\ index' = [index EXCEPT ![c] = 0]
    /\ buf' = [buf EXCEPT ![c] = NoBytes]
    /\ completed_at_call' = [completed_at_call EXCEPT ![c] = {}]
    /\ UNCHANGED <<ret, added, held>>

\* add_piece: if self.should_save() { save_to_disk } ; true
ShouldSave(c) ==
    /\ pc[c] = "add_should_save"
    /\ MapFree(c)
    /\ IF should_save(piece_map)
       THEN /\ pc' = [pc EXCEPT ![c] = "save_open"]
            /\ completed_at_call' = [completed_at_call EXCEPT ![c] = CompletedNow]
            /\ UNCHANGED <<ret, added, held, index, buf>>
       ELSE AddPieceReturns(c)
    /\ UNCHANGED <<bitfield, piece_map, file, their, pos, io_ok,
                   peervars, codecvars, datavars>>

\* PieceManager::save_to_disk, called by an idle worker itself
SaveToDisk(c) ==
    /\ pc[c] = "idle"
    /\ pc' = [pc EXCEPT ![c] = "save_open"]
    /\ ret' = [ret EXCEPT ![c] = NoRet]
    /\ completed_at_call' = [completed_at_call EXCEPT ![c] = CompletedNow]
    /\ UNCHANGED <<bitfield, piece_map, file, held, their, pos, index, buf, added, io_ok,
                   peervars, codecvars, datavars>>

\* what save_to_disk leaves when a worker called it itself
SaveToDiskReturns(c, ok) ==
    /\ pc' = [pc EXCEPT ![c] = "idle"]
    /\ ret' = [ret EXCEPT ![c] = [NoRet EXCEPT !.op = "save_to_disk", !.val = ok]]
    /\ index' = [index EXCEPT ![c] = 0]
    /\ buf' = [buf EXCEPT ![c] = NoBytes]
    /\ completed_at_call' = [completed_at_call EXCEPT ![c] = {}]
    /\ UNCHANGED <<added, held>>

\* save_to_disk: OpenOptions::new().write(true).create(true).open(..)
SaveOpen(c) ==
    /\ pc[c] = "save_open"
    /\ file' = [file EXCEPT !.exists = TRUE]
    /\ pc' = [pc EXCEPT ![c] = "save_read"]
    /\ index' = [index EXCEPT ![c] = 0]
    /\ UNCHANGED <<bitfield, piece_map, held, their, pos, buf, ret, added, io_ok,
                   completed_at_call, peervars, codecvars, datavars>>

\* save_to_disk: the loop head and the first critical section of an
\* iteration, which clones the bytes of a Completed piece
SaveRead(c) ==
    /\ pc[c] = "save_read"
    /\ index[c] < NumPieces
    /\ MapFree(c)
    /\ IF piece_map[index[c]].tag = "Completed"
       THEN /\ buf' = [buf EXCEPT ![c] = piece_map[index[c]].bytes]
            /\ pc' = [pc EXCEPT ![c] = "save_write"]
            /\ UNCHANGED index
       ELSE /\ index' = [index EXCEPT ![c] = @ + 1]
            /\ UNCHANGED <<buf, pc>>
    /\ UNCHANGED <<bitfield, piece_map, file, held, their, pos, ret, added, io_ok,
                   completed_at_call, peervars, codecvars, datavars>>

\* save_to_disk: file.seek(index * piece_length) and file.write_all(&data)
SaveWrite(c) ==
    /\ pc[c] = "save_write"
    /\ file' = [file EXCEPT !.data = WriteAt(@, index[c] * piece_length, buf[c])]
    /\ io_ok' = IF HashMatches(index[c],
                               ReadExact(file'.data, index[c] * piece_length, Len(buf[c])))
                 THEN io_ok \cup {index[c]} ELSE io_ok
    /\ pc' = [pc EXCEPT ![c] = "save_mark"]
    /\ UNCHANGED <<bitfield, piece_map, held, their, pos, index, buf, ret, added,
                   completed_at_call, peervars, codecvars, datavars>>

\* save_to_disk: the second critical section, map.insert(index, OnDisk)
SaveMark(c) ==
    /\ pc[c] = "save_mark"
    /\ MapFree(c)
    /\ piece_map' = [piece_map EXCEPT ![index[c]] = OnDisk]
    /\ index' = [index EXCEPT ![c] = @ + 1]
    /\ buf' = [buf EXCEPT ![c] = NoBytes]
    /\ pc' = [pc EXCEPT ![c] = "save_read"]
    /\ UNCHANGED <<bitfield, file, held, their, pos, ret, added, io_ok,
                   completed_at_call, peervars, codecvars, datavars>>

\* save_to_disk: file.sync_all() after the loop; Ok(()) and add_piece
\* returns true
SaveSync(c) ==
    /\ pc[c] = "save_read"
    /\ index[c] >= NumPieces
    /\ IF held[c] = None THEN SaveToDiskReturns(c, TRUE) ELSE AddPieceReturns(c)
    /\ UNCHANGED <<bitfield, piece_map, file, their, pos, io_ok,
                   peervars, codecvars, datavars>>

\* save_to_disk returns an io::Error from open, seek, write_all or
\* sync_all; inside add_piece the unwrap panics
SaveFails(c) ==
    /\ \/ pc[c] \in {"save_open", "save_write"}
       \/ pc[c] = "save_read" /\ index[c] >= NumPieces
    /\ IF held[c] = None THEN SaveToDiskReturns(c, FALSE) ELSE AddPiecePanics(c)
    /\ UNCHANGED <<bitfield, piece_map, file, their, pos, io_ok,
                   peervars, codecvars, datavars>>

\* PieceManager::cancel_piece(held index), for a worker whose download
\* failed or whose task ended in a panic.  It takes &mut self: no other call
\* on the piece manager is running
CancelPiece(c) ==
    /\ pc[c] \in {"downloading", "panicked"}
    /\ held[c] # None
    /\ \A d \in AllWorkers : ~InCall(d)
    /\ piece_map' = [piece_map EXCEPT ![held[c]] = cancel_status(@)]
    /\ pc' = [pc EXCEPT ![c] = "idle"]
    /\ ret' = [ret EXCEPT ![c] =
                   [NoRet EXCEPT !.op = "cancel_piece", !.idx = held[c], !.val = TRUE]]
    /\ held' = [held EXCEPT ![c] = None]
    /\ UNCHANGED <<bitfield, file, their, pos, index, buf, added, io_ok,
                   completed_at_call, peervars, codecvars, datavars>>

PMNext ==
    \/ \E c \in Workers, tb \in TheirBitfields : GetNextPiece(c, tb)
    \/ \E c \in Workers : GetNextPieceScan(c)
    \/ \E c \in Workers, bytes \in PieceBytes : AddPiece(c, bytes)
    \/ \E c \in Workers : UpdateBitfield(c)
    \/ \E c \in Workers : ShouldSave(c)
    \/ \E c \in Workers : SaveToDisk(c)
    \/ \E c \in Workers : SaveOpen(c)
    \/ \E c \in Workers : SaveRead(c)
    \/ \E c \in Workers : SaveWrite(c)
    \/ \E c \in Workers : SaveMark(c)
    \/ \E c \in Workers : SaveSync(c)
    \/ \E c \in Workers : SaveFails(c)
    \/ \E c \in Workers : CancelPiece(c)

(***************************************************************************)
(* The peer workers: one task per peer of the tracker's answer.            *)
(***************************************************************************)
\* number of peers the tracker returns
NumPeers == 2
\* peer.rs:137 MAX_BLOCK_SIZE, scaled to the piece sizes of the model
MAX_BLOCK_SIZE == 1

Peers == 1..NumPeers

\* the piece index connect_to_peers passes to download_piece
piece_index == 0

\* the info-hash of the torrent and one of another torrent
InfoHashes == {"H", "G"}

\* ConnectionErr of a failed connect, write, read or Message::from_bytes
IoErrors == {"TokioWriteError", "TokioReadError"}
MessageErrors == IoErrors \cup {"InvalidMessage"}

\* Handshake::new
Handshake_new(info_hash, peer_id) ==
    [length |-> 19, protocol |-> "BitTorrent protocol", reserved |-> 0,
     info_hash |-> info_hash, peer_id |-> peer_id]

\* a mutant: the info-hash is not compared
is_valid_no_hash(self, other) ==
    /\ self.length = other.length
    /\ self.protocol = other.protocol

\* a mutant: the peer ids are compared as well
is_valid_with_peer_id(self, other) ==
    /\ self.length = other.length
    /\ self.protocol = other.protocol
    /\ self.info_hash = other.info_hash
    /\ self.peer_id = other.peer_id

\* Handshake::is_valid
is_valid(self, other) ==
    /\ self.length = other.length
    /\ self.protocol = other.protocol
    /\ self.info_hash = other.info_hash

\* the handshake connect_to_peers sends: Handshake::new(hash_clone, [0; 20])
LocalHandshake == Handshake_new("H", 0)

\* handshakes a remote peer answers with
RemoteHandshakes ==
    {Handshake_new(h, 1) : h \in InfoHashes}
    \cup {[Handshake_new("H", 1) EXCEPT !.length = 0],
          [Handshake_new("H", 1) EXCEPT !.protocol = "other protocol"]}

\* MessageType ids, None for KeepAlive
Unchoke == 1
Have == 4
Piece == 7

Msg(id, payload) == [id |-> id, payload |-> payload]

\* the eight bytes of index and begin that lead a Piece payload
PieceHeader == [k \in 1..8 |-> 0]

\* messages a remote peer answers with: KeepAlive, Unchoke, Have and a Piece
\* carrying one block
Replies ==
    {Msg(None, << >>), Msg(Unchoke, << >>), Msg(Have, <<0, 0, 0, 0>>)}
    \cup {Msg(Piece, PieceHeader \o b) : b \in [1..MAX_BLOCK_SIZE -> Byte]}

\* download_piece: num_blocks = (piece_length + MAX_BLOCK_SIZE - 1) / MAX_BLOCK_SIZE
num_blocks == (piece_length + MAX_BLOCK_SIZE - 1) \div MAX_BLOCK_SIZE

\* connect_to_peers: get_piece_hash(0)
piece_hash == piece_hashes[piece_index]

\* no handshake was read yet
NoHandshake == [length |-> 0, protocol |-> "", reserved |-> 0, info_hash |-> "",
                peer_id |-> 0]

\* the states of a worker task that has ended
Ended == {"returned", "failed", "done", "panicked"}

PeerInit ==
    /\ wpc = [w \in Peers |-> "spawned"]
    /\ socket = [w \in Peers |-> FALSE]
    /\ block_index = [w \in Peers |-> 0]
    /\ remaining = [w \in Peers |-> 0]
    /\ piece_buffer = [w \in Peers |-> << >>]
    /\ res = [w \in Peers |-> Msg(None, << >>)]
    /\ requests = [w \in Peers |-> << >>]
    /\ cancel_calls = [w \in Peers |-> {}]
    /\ err = [w \in Peers |-> "none"]
    /\ remote_hs = [w \in Peers |-> NoHandshake]
    /\ supervisor = [pc |-> "awaiting", handle |-> 1]

\* Peer::connect: the remote handshake was read; the socket is kept only
\* when it is valid, otherwise the task returns
Connect(w, their_hs) ==
    /\ wpc[w] = "spawned"
    /\ remote_hs' = [remote_hs EXCEPT ![w] = their_hs]
    /\ IF is_valid(their_hs, LocalHandshake)
       THEN /\ socket' = [socket EXCEPT ![w] = TRUE]
            /\ wpc' = [wpc EXCEPT ![w] = "connected"]
            /\ UNCHANGED err
       ELSE /\ wpc' = [wpc EXCEPT ![w] = "returned"]
            /\ err' = [err EXCEPT ![w] = "InvalidHandshake"]
            /\ UNCHANGED socket
    /\ UNCHANGED <<block_index, remaining, piece_buffer, res, requests, cancel_calls,
                   supervisor, pmvars, codecvars, datavars>>

\* Peer::connect fails with a connect, write or read error; the task returns
ConnectFails(w, e) ==
    /\ wpc[w] = "spawned"
    /\ wpc' = [wpc EXCEPT ![w] = "returned"]
    /\ err' = [err EXCEPT ![w] = e]
    /\ UNCHANGED <<socket, block_index, remaining, piece_buffer, res, requests,
                   cancel_calls, supervisor, remote_hs, pmvars, codecvars, datavars>>

\* Peer::send_bitfield: the Bitfield message is written and one reply read
SendBitfield(w, m) ==
    /\ wpc[w] = "connected"
    /\ wpc' = [wpc EXCEPT ![w] = "download_piece"]
    /\ UNCHANGED <<socket, block_index, remaining, piece_buffer, res, requests,
                   cancel_calls, supervisor, remote_hs, err, pmvars, codecvars, datavars>>

\* Peer::send_bitfield fails (write, read or framing error); the task returns
SendBitfieldFails(w, e) ==
    /\ wpc[w] = "connected"
    /\ wpc' = [wpc EXCEPT ![w] = "returned"]
    /\ err' = [err EXCEPT ![w] = e]
    /\ UNCHANGED <<socket, block_index, remaining, piece_buffer, res, requests,
                   cancel_calls, supervisor, remote_hs, pmvars, codecvars, datavars>>

\* download_piece: Interested is sent and the reply read; then the block
\* loop starts, after wait_for_message(Unchoke) unless the reply is Unchoke
SendInterested(w, m) ==
    /\ wpc[w] = "download_piece"
    /\ wpc' = [wpc EXCEPT ![w] = IF m.id = Unchoke THEN "request" ELSE "wait_unchoke"]
    /\ block_index' = [block_index EXCEPT ![w] = 0]
    /\ remaining' = [remaining EXCEPT ![w] = piece_length]
    /\ piece_buffer' = [piece_buffer EXCEPT ![w] = << >>]
    /\ UNCHANGED <<socket, res, requests, cancel_calls, supervisor, remote_hs, err, pmvars, codecvars, datavars>>

\* wait_for_message(Unchoke): one message read; any other id reads on
WaitUnchoke(w, m) ==
    /\ wpc[w] = "wait_unchoke"
    /\ wpc' = [wpc EXCEPT ![w] = IF m.id = Unchoke THEN "request" ELSE "wait_unchoke"]
    /\ UNCHANGED <<socket, block_index, remaining, piece_buffer, res, requests,
                   cancel_calls, supervisor, remote_hs, err, pmvars, codecvars, datavars>>

\* download_piece: the end of one iteration of the block loop with the
\* outer `res`; after the last block the hash of the buffer is compared
EndOfBlock(w, reply) ==
    IF reply.payload # << >> /\ Len(reply.payload) < 8
    THEN \* &payload[8..] is out of range: the task panics
         /\ wpc' = [wpc EXCEPT ![w] = "panicked"]
         /\ UNCHANGED <<block_index, piece_buffer, err>>
    ELSE LET buffer == IF reply.payload = << >> THEN piece_buffer[w]
                       ELSE piece_buffer[w] \o SubSeq(reply.payload, 9, Len(reply.payload))
         IN  /\ piece_buffer' = [piece_buffer EXCEPT ![w] = buffer]
             /\ block_index' = [block_index EXCEPT ![w] = @ + 1]
             /\ wpc' = [wpc EXCEPT ![w] =
                            IF block_index[w] + 1 < num_blocks THEN "request"
                            ELSE IF SHA1(buffer) # piece_hash THEN "failed"
                            ELSE "done"]
             /\ err' = [err EXCEPT ![w] =
                            IF block_index[w] + 1 >= num_blocks /\ SHA1(buffer) # piece_hash
                            THEN "UnexpectedMessage" ELSE @]

\* download_piece: the Request of the next block is sent and the reply read
SendRequest(w, m) ==
    /\ wpc[w] = "request"
    /\ LET offset == block_index[w] * MAX_BLOCK_SIZE
           block_size == Min(MAX_BLOCK_SIZE, remaining[w])
       IN  /\ remaining' = [remaining EXCEPT ![w] = @ - block_size]
           /\ requests' = [requests EXCEPT ![w] =
                               Append(@, <<piece_index, offset, block_size>>)]
    /\ res' = [res EXCEPT ![w] = m]
    /\ IF m.id = Piece
       THEN EndOfBlock(w, m)
       ELSE /\ wpc' = [wpc EXCEPT ![w] = "wait_piece"]
            /\ UNCHANGED <<block_index, piece_buffer, err>>
    /\ UNCHANGED <<socket, cancel_calls, supervisor, remote_hs, pmvars, codecvars, datavars>>

\* wait_for_message(Piece) after a reply that was no Piece: its result is
\* bound to an inner `res`, and the loop goes on with the outer one
WaitPiece(w, m) ==
    /\ wpc[w] = "wait_piece"
    /\ IF m.id = Piece
       THEN EndOfBlock(w, res[w])
       ELSE UNCHANGED <<wpc, block_index, piece_buffer, err>>
    /\ UNCHANGED <<socket, remaining, res, requests, cancel_calls, supervisor, remote_hs, pmvars, codecvars, datavars>>

\* download_piece returns a write, read or framing error from send_message
\* or wait_for_message; the task prints it and ends
DownloadFails(w, e) ==
    /\ wpc[w] \in {"download_piece", "wait_unchoke", "request", "wait_piece"}
    /\ wpc' = [wpc EXCEPT ![w] = "failed"]
    /\ err' = [err EXCEPT ![w] = e]
    /\ UNCHANGED <<socket, block_index, remaining, piece_buffer, res, requests,
                   cancel_calls, supervisor, remote_hs, pmvars, codecvars, datavars>>

\* a mutant: a handle counts as joined as soon as any task has ended
Await_any ==
    /\ supervisor.pc = "awaiting"
    /\ \E w \in Peers : wpc[w] \in Ended
    /\ supervisor' =
           IF supervisor.handle = NumPeers
           THEN [supervisor EXCEPT !.pc = "returned"]
           ELSE [supervisor EXCEPT !.handle = @ + 1]
    /\ UNCHANGED <<wpc, socket, block_index, remaining, piece_buffer, res, requests,
                   cancel_calls, err, remote_hs, pmvars, codecvars, datavars>>

\* connect_to_peers: handle.await.expect("Task panicked") of the next
\* handle of the loop, once its task has ended; a task that panicked makes
\* the expect panic, and after the last handle connect_to_peers returns
Await ==
    /\ supervisor.pc = "awaiting"
    /\ wpc[supervisor.handle] \in Ended
    /\ supervisor' =
           IF wpc[supervisor.handle] = "panicked"
           THEN [supervisor EXCEPT !.pc = "panicked"]
           ELSE IF supervisor.handle = NumPeers
           THEN [supervisor EXCEPT !.pc = "returned"]
           ELSE [supervisor EXCEPT !.handle = @ + 1]
    /\ UNCHANGED <<wpc, socket, block_index, remaining, piece_buffer, res, requests,
                   cancel_calls, err, remote_hs, pmvars, codecvars, datavars>>

PeerNext ==
    \/ Await
    \/ \E w \in Peers, hs \in RemoteHandshakes : Connect(w, hs)
    \/ \E w \in Peers, e \in IoErrors \cup {"TokioConnectError"} : ConnectFails(w, e)
    \/ \E w \in Peers, m \in Replies : SendBitfield(w, m)
    \/ \E w \in Peers, e \in MessageErrors : SendBitfieldFails(w, e)
    \/ \E w \in Peers, m \in Replies : SendInterested(w, m)
    \/ \E w \in Peers, m \in Replies : WaitUnchoke(w, m)
    \/ \E w \in Peers, m \in Replies : SendRequest(w, m)
    \/ \E w \in Peers, m \in Replies : WaitPiece(w, m)
    \/ \E w \in Peers, e \in MessageErrors : DownloadFails(w, e)

(***************************************************************************)
(* The message codec (message.rs): Message::to_bytes and                   *)
(* Message::from_bytes over buffers of bytes 0..255.                       *)
(***************************************************************************)
LENGTH_SIZE == 4
ID_SIZE == 1
HEADER_SIZE == LENGTH_SIZE + ID_SIZE

\* MessageId, the ids not named above
Choke == 0
Interested == 2
NotInterested == 3
Bitfield == 5
Request == 6
Cancel == 8
Port == 9

\* BufMut::put_u32, put_u16, put_u8: big-endian, the value cut to its width
put_u8(x) == <<x % 256>>
put_u16(x) == <<(x \div 256) % 256, x % 256>>
put_u32(x) ==
    <<(x \div 16777216) % 256, (x \div 65536) % 256, (x \div 256) % 256, x % 256>>

\* u32::from_be_bytes, and the value Buf::get_u32 / get_u16 reads at the
\* front of a buffer that is long enough
from_be_bytes(b) == ((b[1] * 256 + b[2]) * 256 + b[3]) * 256 + b[4]
get_u16(b) == b[1] * 256 + b[2]

\* the rest of a buffer after n bytes were read from its front
Advance(b, n) == SubSeq(b, n + 1, Len(b))

\* the variants of enum Message
KeepAlive == [type |-> "KeepAlive"]
NoPayload(type) == [type |-> type]
Message_Have(idx) == [type |-> "Have", index |-> idx]
Message_Bitfield(bf) == [type |-> "Bitfield", bitfield |-> bf]
Message_Request(idx, begin, length) ==
    [type |-> "Request", index |-> idx, begin |-> begin, length |-> length]
Message_Piece(idx, begin, block) ==
    [type |-> "Piece", index |-> idx, begin |-> begin, block |-> block]
Message_Cancel(idx, begin, length) ==
    [type |-> "Cancel", index |-> idx, begin |-> begin, length |-> length]
Message_Port(port) == [type |-> "Port", port |-> port]

\* MessageId as u8 of the variants without payload
IdOf(type) ==
    CASE type = "Choke" -> Choke
      [] type = "Unchoke" -> Unchoke
      [] type = "Interested" -> Interested
      [] type = "NotInterested" -> NotInterested

\* Message::to_bytes
to_bytes(self) ==
    CASE self.type = "KeepAlive" -> put_u32(0)
      [] self.type \in {"Choke", "Unchoke", "Interested", "NotInterested"} ->
            put_u32(ID_SIZE) \o put_u8(IdOf(self.type))
      [] self.type = "Have" -> put_u32(5) \o put_u8(Have) \o put_u32(self.index)
      [] self.type = "Bitfield" ->
            put_u32(ID_SIZE + Len(self.bitfield)) \o put_u8(Bitfield) \o self.bitfield
      [] self.type = "Request" ->
            put_u32(13) \o put_u8(Request) \o put_u32(self.index)
                \o put_u32(self.begin) \o put_u32(self.length)
      [] self.type = "Piece" ->
            put_u32(9 + Len(self.block)) \o put_u8(Piece) \o put_u32(self.index)
                \o put_u32(self.begin) \o self.block
      [] self.type = "Cancel" ->
            put_u32(13) \o put_u8(Cancel) \o put_u32(self.index)
                \o put_u32(self.begin) \o put_u32(self.length)
      [] self.type = "Port" -> put_u32(3) \o put_u8(Port) \o put_u16(self.port)

\* Result<Message, MessageErr>, and the panic of an index or a read past
\* the end of a buffer
Ok(m) == [result |-> "Ok", value |-> m]
Err(e) == [result |-> "Err", value |-> e]
Panic == [result |-> "Panic", value |-> "out of range"]

\* from_bytes, the match on msg_id: payload is << >> for None
FromPayload(id, has_payload, payload) ==
    IF id \in {Choke, Unchoke, Interested, NotInterested}
    THEN Ok(NoPayload(CASE id = Choke -> "Choke"
                        [] id = Unchoke -> "Unchoke"
                        [] id = Interested -> "Interested"
                        [] id = NotInterested -> "NotInterested"))
    ELSE IF ~has_payload THEN Err("MissingPayload")
    ELSE CASE id = Have ->
                IF Len(payload) < 4 THEN Panic
                ELSE Ok(Message_Have(from_be_bytes(payload)))
           [] id = Bitfield -> Ok(Message_Bitfield(payload))
           [] id \in {Request, Cancel} ->
                IF Len(payload) < 12 THEN Panic
                ELSE LET idx == from_be_bytes(payload)
                         begin == from_be_bytes(Advance(payload, 4))
                         length == from_be_bytes(Advance(payload, 8))
                     IN  IF id = Request THEN Ok(Message_Request(idx, begin, length))
                         ELSE Ok(Message_Cancel(idx, begin, length))
           [] id = Piece ->
                IF Len(payload) < 8 THEN Panic
                ELSE Ok(Message_Piece(from_be_bytes(payload),
                                      from_be_bytes(Advance(payload, 4)),
                                      Advance(payload, 8)))
           [] id = Port ->
                IF Len(payload) < 2 THEN Panic
                ELSE Ok(Message_Port(get_u16(payload)))

\* Message::from_bytes
from_bytes(bytes) ==
    IF Len(bytes) < LENGTH_SIZE THEN Err("InvalidMessageLength")
    ELSE LET length == from_be_bytes(bytes)
         IN  IF length = 0 THEN Ok(KeepAlive)
             ELSE IF Len(bytes) < 5 THEN Panic
             ELSE IF bytes[5] > 9 THEN Err("InvalidMessageId")
             ELSE IF Len(bytes) < LENGTH_SIZE + length THEN Err("InvalidMessageLength")
             ELSE FromPayload(bytes[5], length > 1,
                              SubSeq(bytes, HEADER_SIZE + 1, LENGTH_SIZE + length))

\* u32 and u16 field values: small ones, one per byte position, and large
\* ones (0x7fffffff for u32, and 0xffff)
U32Values == {0, 1, 256, 65536, 2147483647}
U16Values == {0, 1, 256, 65535}

\* bitfield and block payloads
Payloads == {<< >>, <<0>>, <<255>>, <<1, 1, 1, 1>>}

\* the messages given to to_bytes: every variant
Messages ==
    {KeepAlive}
    \cup {NoPayload(t) : t \in {"Choke", "Unchoke", "Interested", "NotInterested"}}
    \cup {Message_Have(i) : i \in U32Values}
    \cup {Message_Bitfield(b) : b \in Payloads}
    \cup {Message_Request(i, 0, l) : i \in U32Values, l \in U32Values}
    \cup {Message_Request(1, b, 1) : b \in U32Values}
    \cup {Message_Piece(i, b, blk) : i \in {0, 256}, b \in {0, 65536}, blk \in Payloads}
    \cup {Message_Cancel(i, b, 16384) : i \in {0, 1}, b \in U32Values}
    \cup {Message_Port(p) : p \in U16Values}

\* lengths of the proper prefixes of a serialized Request, the longest of
\* the messages of fixed size
PrefixLengths == 0..(LENGTH_SIZE + 12)

NoResult == [result |-> "none", value |-> "none"]

CodecInit ==
    /\ codec_pc = "start"
    /\ message = KeepAlive
    /\ wire = << >>
    /\ parsed = NoResult

\* m.to_bytes()
ToBytes(m) ==
    /\ codec_pc = "start"
    /\ message' = m
    /\ wire' = to_bytes(m)
    /\ codec_pc' = "serialized"
    /\ UNCHANGED <<parsed, pmvars, peervars, datavars>>

\* ids of received frames: the ten of MessageId and one past them
FrameIds == 0..(Port + 1)

\* payload sizes of received frames: 0 up to one past the 12 of a Request
PayloadSizes == 0..13

\* the bytes a payload is filled with (a u32 of them stays below 2^31)
FillBytes == {0, 127}

\* a complete frame from a peer: length prefix 1 + n, the id, n payload bytes
Frame(id, n, fill) ==
    /\ codec_pc = "start"
    /\ wire' = put_u32(ID_SIZE + n) \o put_u8(id) \o [k \in 1..n |-> fill]
    /\ codec_pc' = "framed"
    /\ UNCHANGED <<message, parsed, pmvars, peervars, datavars>>

\* only the first n bytes of the serialized message reach the buffer
Truncate(n) ==
    /\ codec_pc = "serialized"
    /\ n < Len(wire)
    /\ wire' = SubSeq(wire, 1, n)
    /\ codec_pc' = "truncated"
    /\ UNCHANGED <<message, parsed, pmvars, peervars, datavars>>

\* Message::from_bytes(&buffer)
FromBytes ==
    /\ codec_pc \in {"serialized", "truncated", "framed"}
    /\ parsed' = from_bytes(wire)
    /\ codec_pc' = CASE codec_pc = "serialized" -> "parsed"
                      [] codec_pc = "truncated" -> "parsed_truncated"
                      [] codec_pc = "framed" -> "parsed_frame"
    /\ UNCHANGED <<message, wire, pmvars, peervars, datavars>>

CodecNext ==
    \/ \E m \in Messages : ToBytes(m)
    \/ \E n \in PrefixLengths : Truncate(n)
    \/ \E id \in FrameIds, n \in PayloadSizes, fill \in FillBytes : Frame(id, n, fill)
    \/ FromBytes

(***************************************************************************)
(* The handshake (handshake.rs): to_bytes, from_bytes and is_valid on      *)
(* handshakes of bytes, with the sizes and offsets of the source.          *)
(***************************************************************************)
LEGNTH_SIZE == 1
PROTOCOL_SIZE == 19
RESERVED_SIZE == 8
INFOHASH_SIZE == 20
PEER_ID_SIZE == 20
TOTAL_SIZE == LEGNTH_SIZE + PROTOCOL_SIZE + RESERVED_SIZE + INFOHASH_SIZE + PEER_ID_SIZE

LEGNTH_OFFSET == 0
PROTOCOL_OFFSET == LEGNTH_OFFSET + LEGNTH_SIZE
RESERVED_OFFSET == PROTOCOL_OFFSET + PROTOCOL_SIZE
INFOHASH_OFFSET == RESERVED_OFFSET + RESERVED_SIZE
PEER_ID_OFFSET == INFOHASH_OFFSET + INFOHASH_SIZE

\* b"BitTorrent protocol"
PROTOCOL ==
    <<66, 105, 116, 84, 111, 114, 114, 101, 110, 116, 32,
      112, 114, 111, 116, 111, 99, 111, 108>>

\* [x; n]
Repeat(x, n) == [k \in 1..n |-> x]

\* bytes[from..to] of a slice indexed from 0
Slice(bytes, from, to) == SubSeq(bytes, from + 1, to)

\* a mutant: the reserved bytes are not written
Handshake_to_bytes_no_reserved(self) ==
    <<self.length>> \o self.protocol \o Repeat(0, RESERVED_SIZE)
        \o self.info_hash \o self.peer_id

\* Handshake::to_bytes: every field copied to its range of the result
Handshake_to_bytes(self) ==
    [k \in 1..TOTAL_SIZE |->
        IF k <= PROTOCOL_OFFSET THEN self.length
        ELSE IF k <= RESERVED_OFFSET THEN self.protocol[k - PROTOCOL_OFFSET]
        ELSE IF k <= INFOHASH_OFFSET THEN self.reserved[k - RESERVED_OFFSET]
        ELSE IF k <= PEER_ID_OFFSET THEN self.info_hash[k - INFOHASH_OFFSET]
        ELSE self.peer_id[k - PEER_ID_OFFSET]]

\* Handshake::from_bytes
Handshake_from_bytes(bytes) ==
    IF Len(bytes) # TOTAL_SIZE THEN Err("InvalidSize")
    ELSE Ok([length |-> bytes[LEGNTH_OFFSET + 1],
             protocol |-> Slice(bytes, PROTOCOL_OFFSET, RESERVED_OFFSET),
             reserved |-> Slice(bytes, RESERVED_OFFSET, INFOHASH_OFFSET),
             info_hash |-> Slice(bytes, INFOHASH_OFFSET, PEER_ID_OFFSET),
             peer_id |-> Slice(bytes, PEER_ID_OFFSET, TOTAL_SIZE)])

\* the handshakes of the model: every field takes two values
Handshakes ==
    [length : {PROTOCOL_SIZE, 0},
     protocol : {PROTOCOL, Repeat(0, PROTOCOL_SIZE)},
     reserved : {Repeat(0, RESERVED_SIZE), Repeat(0, RESERVED_SIZE - 1) \o <<1>>},
     info_hash : {Repeat(1, INFOHASH_SIZE), <<2>> \o Repeat(1, INFOHASH_SIZE - 1)},
     peer_id : {Repeat(0, PEER_ID_SIZE), Repeat(0, PEER_ID_SIZE - 1) \o <<7>>}]

\* lengths of the buffers given to from_bytes
BufferLengths == {0, TOTAL_SIZE - 1, TOTAL_SIZE, TOTAL_SIZE + 1}

\* a buffer of n bytes: the bytes of b, cut or followed by zeros
Resize(b, n) == [k \in 1..n |-> IF k <= Len(b) THEN b[k] ELSE 0]

HsInit ==
    /\ hs_pc = "start"
    /\ handshake = NoHandshake
    /\ other_hs = NoHandshake
    /\ hs_bytes = << >>
    /\ hs_result = NoResult

\* h.to_bytes()
HsToBytes(h) ==
    /\ hs_pc = "start"
    /\ handshake' = h
    /\ hs_bytes' = Handshake_to_bytes(h)
    /\ hs_pc' = "serialized"
    /\ UNCHANGED <<other_hs, hs_result, pmvars, peervars, codecvars, benvars, metavars,
                   wirevars>>

\* a buffer of n bytes reaches from_bytes instead
HsResize(n) ==
    /\ hs_pc = "serialized"
    /\ n # Len(hs_bytes)
    /\ hs_bytes' = Resize(hs_bytes, n)
    /\ hs_pc' = "resized"
    /\ UNCHANGED <<handshake, other_hs, hs_result, pmvars, peervars, codecvars, benvars, metavars,
                   wirevars>>

\* Handshake::from_bytes(&buffer)
HsFromBytes ==
    /\ hs_pc \in {"serialized", "resized"}
    /\ hs_result' = Handshake_from_bytes(hs_bytes)
    /\ hs_pc' = "parsed"
    /\ UNCHANGED <<handshake, other_hs, hs_bytes, pmvars, peervars, codecvars, benvars, metavars,
                   wirevars>>

\* a.is_valid(&b)
HsIsValid(a, b) ==
    /\ hs_pc = "start"
    /\ handshake' = a
    /\ other_hs' = b
    /\ hs_result' = is_valid(a, b)
    /\ hs_pc' = "validated"
    /\ UNCHANGED <<hs_bytes, pmvars, peervars, codecvars, benvars, metavars,
                   wirevars>>

HsNext ==
    \/ \E h \in Handshakes : HsToBytes(h)
    \/ \E n \in BufferLengths : HsResize(n)
    \/ HsFromBytes
    \/ \E a \in Handshakes, b \in Handshakes : HsIsValid(a, b)

(***************************************************************************)
(* Bencode (bencode.rs): encode and decode_to_vec over buffers of bytes.   *)
(* A BencodeType is a record tagged with its variant; a BencodeMap         *)
(* (BTreeMap<Vec<u8>, BencodeType>) is a function from keys to values.     *)
(***************************************************************************)
INT_PREFIX == 105
INT_SUFFIX == 101
LIST_PREFIX == 108
LIST_SUFFIX == 101
DICTIONARY_PREFIX == 100
DICTIONARY_SUFFIX == 101
STRING_DELIMITER == 58

\* b'-', and the digits b'0'..=b'9'
MINUS == 45
Digits == 48..57

\* the variants of BencodeType
Integer(x) == [type |-> "Integer", int |-> x]
String(x) == [type |-> "String", bytes |-> x]
List(x) == [type |-> "List", items |-> x]
Dictionary(x) == [type |-> "Dictionary", map |-> x]

\* BencodeMap::new, and BTreeMap::insert
EmptyMap == << >>
Insert(map, key, v) ==
    [k \in DOMAIN map \cup {key} |-> IF k = key THEN v ELSE map[k]]

\* the order of Vec<u8>: lexicographic on the bytes, a prefix first
LexLess(a, b) ==
    \E n \in 0..Min(Len(a), Len(b)) :
        /\ \A k \in 1..n : a[k] = b[k]
        /\ \/ n = Len(a) /\ n < Len(b)
           \/ n < Len(a) /\ n < Len(b) /\ a[n + 1] < b[n + 1]

\* a mutant: the keys of a set from the greatest to the least
RECURSIVE Descending(_)
Descending(keys) ==
    IF keys = {} THEN << >>
    ELSE LET last == CHOOSE k \in keys : \A j \in keys \ {k} : LexLess(j, k)
         IN  <<last>> \o Descending(keys \ {last})

\* the keys of a set in the order a BTreeMap iterates them
RECURSIVE Ascending(_)
Ascending(keys) ==
    IF keys = {} THEN << >>
    ELSE LET first == CHOOSE k \in keys : \A j \in keys \ {k} : LexLess(k, j)
         IN  <<first>> \o Ascending(keys \ {first})

\* usize::to_string and i64::to_string, as bytes
RECURSIVE usize_to_string(_)
usize_to_string(n) ==
    IF n < 10 THEN <<48 + n>>
    ELSE usize_to_string(n \div 10) \o <<48 + (n % 10)>>

\* a mutant: the sign is not written
i64_to_string_unsigned(x) == usize_to_string(IF x < 0 THEN 0 - x ELSE x)

i64_to_string(x) ==
    IF x < 0 THEN <<MINUS>> \o usize_to_string(0 - x) ELSE usize_to_string(x)

\* the value of a string of digits
RECURSIVE DigitsValue(_)
DigitsValue(s) ==
    IF s = << >> THEN 0
    ELSE 10 * DigitsValue(SubSeq(s, 1, Len(s) - 1)) + (s[Len(s)] - 48)

AllDigits(s) == s # << >> /\ \A k \in 1..Len(s) : s[k] \in Digits

\* str::parse::<i64> on a string of '-' and digits: a sign is read at the
\* front only, and digits must follow it
parse_i64(s) ==
    IF s # << >> /\ s[1] = MINUS
    THEN IF AllDigits(Tail(s)) THEN Ok(0 - DigitsValue(Tail(s))) ELSE Err("parse")
    ELSE IF AllDigits(s) THEN Ok(DigitsValue(s)) ELSE Err("parse")

\* str::parse::<usize>
parse_usize(s) == IF AllDigits(s) THEN Ok(DigitsValue(s)) ELSE Err("parse")

\* what a read_* function returns: the value and the position of the
\* iterator after it, or the error
Read(v, at) == [result |-> "Ok", value |-> v, pos |-> at]
Failed(kind, text) == [result |-> "Err", value |-> <<kind, text>>, pos |-> 0]

\* encode_string
encode_string(bytes) == usize_to_string(Len(bytes)) \o <<STRING_DELIMITER>> \o bytes

\* encode
RECURSIVE encode(_)
RECURSIVE EncodeItems(_)
RECURSIVE EncodePairs(_, _)
EncodeItems(items) ==
    IF items = << >> THEN << >>
    ELSE encode(Head(items)) \o EncodeItems(Tail(items))

EncodePairs(map, keys) ==
    IF keys = << >> THEN << >>
    ELSE encode_string(Head(keys)) \o encode(map[Head(keys)])
            \o EncodePairs(map, Tail(keys))

encode(v) ==
    CASE v.type = "Integer" -> <<INT_PREFIX>> \o i64_to_string(v.int) \o <<INT_SUFFIX>>
      [] v.type = "String" -> encode_string(v.bytes)
      [] v.type = "List" -> <<LIST_PREFIX>> \o EncodeItems(v.items) \o <<LIST_SUFFIX>>
      [] v.type = "Dictionary" ->
            <<DICTIONARY_PREFIX>> \o EncodePairs(v.map, Ascending(DOMAIN v.map))
                \o <<DICTIONARY_SUFFIX>>

\* read_integer: the loop over the bytes from at on, temp the string so far
RECURSIVE IntegerLoop(_, _, _)
IntegerEnd(temp, at) ==
    IF temp = <<MINUS, 48>>
    THEN Failed("InvalidIntegerBencode", "-0 is an invalid integer")
    ELSE IF parse_i64(temp).result = "Ok"
    THEN Read(Integer(parse_i64(temp).value), at)
    ELSE Failed("InvalidIntegerBencode", "Invalid integer")

IntegerLoop(bytes, at, temp) ==
    IF at > Len(bytes) THEN IntegerEnd(temp, at)
    ELSE CASE bytes[at] = MINUS \/ bytes[at] \in Digits ->
                IntegerLoop(bytes, at + 1, Append(temp, bytes[at]))
           [] bytes[at] = INT_PREFIX -> IntegerLoop(bytes, at + 1, temp)
           [] bytes[at] = INT_SUFFIX -> IntegerEnd(temp, at + 1)
           [] OTHER -> Failed("InvalidIntegerBencode", "Non-numeric character in integer")

read_integer(bytes, at) == IntegerLoop(bytes, at, << >>)

\* the position of the first byte c from at on, or one past the end
RECURSIVE PositionOf(_, _, _)
PositionOf(c, bytes, at) ==
    IF at > Len(bytes) \/ bytes[at] = c THEN at
    ELSE PositionOf(c, bytes, at + 1)

\* read_string: take_while consumes the delimiter it stops at
read_string(bytes, at) ==
    LET colon == PositionOf(STRING_DELIMITER, bytes, at)
        len_str == SubSeq(bytes, at, colon - 1)
        len == parse_usize(len_str)
        start == Min(colon, Len(bytes)) + 1
        result == SubSeq(bytes, start, Min(start + len.value - 1, Len(bytes)))
    IN  IF \E k \in 1..Len(len_str) : len_str[k] > 127
        THEN Failed("InvalidStringBencode", "Error converting bytes to UTF8")
        ELSE IF len_str = << >>
        THEN Failed("InvalidStringBencode", "Missing prefix value")
        ELSE IF len.result # "Ok"
        THEN Failed("InvalidStringBencode", "Non-numeric character in integer")
        ELSE IF Len(result) # len.value
        THEN Failed("InvalidStringBencode", "Not enough characters")
        ELSE Read(String(result), start + len.value)

\* read_value, read_list and read_dictionary
RECURSIVE read_value(_, _)
RECURSIVE ListLoop(_, _, _)
RECURSIVE DictionaryLoop(_, _, _)

ListLoop(bytes, at, result) ==
    IF at > Len(bytes) THEN Failed("InvalidListBencode", "Missing suffix value")
    ELSE IF bytes[at] = LIST_SUFFIX THEN Read(List(result), at + 1)
    ELSE LET item == read_value(bytes, at)
         IN  IF item.result # "Ok" THEN item
             ELSE ListLoop(bytes, item.pos, Append(result, item.value))

read_list(bytes, at) ==
    IF at <= Len(bytes) /\ bytes[at] = LIST_PREFIX
    THEN ListLoop(bytes, at + 1, << >>)
    ELSE Failed("InvalidListBencode", "Missing prefix value")

DictionaryLoop(bytes, at, result) ==
    IF at > Len(bytes) THEN Failed("InvalidDictionaryBencode", "Missing suffix value")
    ELSE IF bytes[at] = DICTIONARY_SUFFIX THEN Read(Dictionary(result), at + 1)
    ELSE IF bytes[at] \in Digits
    THEN LET key == read_value(bytes, at)
         IN  IF key.result # "Ok" THEN key
             ELSE LET v == read_value(bytes, key.pos)
                  IN  IF v.result # "Ok" THEN v
                      ELSE DictionaryLoop(bytes, v.pos,
                                          Insert(result, key.value.bytes, v.value))
    ELSE Failed("InvalidDictionaryBencode", "Invalid key. Keys must be of type String")

read_dictionary(bytes, at) ==
    IF at <= Len(bytes) /\ bytes[at] = DICTIONARY_PREFIX
    THEN DictionaryLoop(bytes, at + 1, EmptyMap)
    ELSE Failed("InvalidDictionaryBencode", "Missing prefix value")

read_value(bytes, at) ==
    IF at > Len(bytes) THEN Failed("EmptyBencode", "")
    ELSE CASE bytes[at] = INT_PREFIX -> read_integer(bytes, at)
           [] bytes[at] = LIST_PREFIX -> read_list(bytes, at)
           [] bytes[at] = DICTIONARY_PREFIX -> read_dictionary(bytes, at)
           [] bytes[at] \in Digits -> read_string(bytes, at)
           [] OTHER -> Failed("InvalidBencode", "")

\* decode_to_vec
RECURSIVE DecodeLoop(_, _, _)
DecodeLoop(bytes, at, vec) ==
    IF at > Len(bytes) THEN Ok(vec)
    ELSE LET v == read_value(bytes, at)
         IN  IF v.result # "Ok" THEN Err(v.value)
             ELSE DecodeLoop(bytes, v.pos, Append(vec, v.value))

decode_to_vec(encoded_value) == DecodeLoop(encoded_value, 1, << >>)

\* the integers, the byte strings and the keys of the model: "", "a", "b",
\* "ab", ":", "e", "1", "i1e", and the keys "", "B", "a", "aa", "b"
BInts == {0, 7, 10, -3, -120}
BStrings == {<< >>, <<97>>, <<98>>, <<97, 98>>, <<58>>, <<101>>, <<49>>, <<105, 49, 101>>}
BKeys == {<< >>, <<66>>, <<97>>, <<97, 97>>, <<98>>}
MaxKeys == 3

\* values without nesting
BAtoms == {Integer(x) : x \in BInts} \cup {String(x) : x \in BStrings}

\* a few of them, for the items of lists and dictionaries
BItems == {Integer(-3), Integer(10), String(<< >>), String(<<97, 98>>)}

BLists ==
    {List(<< >>)} \cup {List(<<a>>) : a \in BAtoms}
    \cup {List(<<a, b>>) : a \in BItems, b \in BItems}

BDictionaries ==
    {Dictionary(m) :
        m \in UNION {[S -> {Integer(-3), String(<<97, 98>>)}] :
                        S \in {T \in SUBSET BKeys : Cardinality(T) <= MaxKeys}}}

\* lists and dictionaries inside lists and dictionaries
BNested ==
    {List(<<d, l>>) : d \in {Dictionary(EmptyMap), Dictionary(Insert(EmptyMap, <<97>>, Integer(7)))},
                      l \in {List(<< >>), List(<<Integer(-3)>>)}}
    \cup {Dictionary(Insert(Insert(EmptyMap, <<98>>, l), <<97>>, d)) :
            l \in {List(<< >>), List(<<Integer(-3), String(<<101>>)>>)},
            d \in {Dictionary(EmptyMap),
                   Dictionary(Insert(EmptyMap, << >>, List(<<Integer(0)>>)))}}

\* the values given to encode
BValues == BAtoms \cup BLists \cup BDictionaries \cup BNested

\* the bytes after the 'i' of an integer read by the decoder: up to
\* MaxIntegerChars of 'i', 'e', '-', '0', '1', 't'
MaxIntegerChars == 4
IntegerChars == {INT_PREFIX, INT_SUFFIX, MINUS, 48, 49, 116}
IntegerInputs ==
    {<<INT_PREFIX>> \o s : s \in UNION {[1..n -> IntegerChars] : n \in 0..MaxIntegerChars}}

\* a dictionary as a file holds it: the pairs in the order of the sequence keys
RawDictionary(keys) ==
    <<DICTIONARY_PREFIX>>
        \o EncodePairs([k \in BKeys |-> Integer(Len(k))], keys)
        \o <<DICTIONARY_SUFFIX>>

\* the sequences of two or three different keys, in every order
KeySequences ==
    {s \in UNION {[1..n -> BKeys] : n \in 2..MaxKeys} :
        \A i \in DOMAIN s, j \in DOMAIN s : i # j => s[i] # s[j]}

DictionaryInputs == {RawDictionary(s) : s \in KeySequences}

\* the buffers given to decode_to_vec that encode did not write
BInputs == IntegerInputs \cup DictionaryInputs

\* the sequences that hold every key of the set S once
OrdersOf(S) ==
    {s \in [1..Cardinality(S) -> S] : \A k \in S : \E i \in DOMAIN s : s[i] = k}

\* every key of the sequence is less than the keys after it
IsAscending(keys) ==
    \A i \in DOMAIN keys, j \in DOMAIN keys : i < j => LexLess(keys[i], keys[j])

BenInit ==
    /\ ben_pc = "start"
    /\ ben_value = Integer(0)
    /\ encoded = << >>
    /\ decoded = NoResult
    /\ reencoded = << >>

\* encode(&v)
BenEncode(v) ==
    /\ ben_pc = "start"
    /\ ben_value' = v
    /\ encoded' = encode(v)
    /\ ben_pc' = "encoded"
    /\ UNCHANGED <<decoded, reencoded, pmvars, peervars, codecvars, hsvars, metavars,
                   wirevars>>

\* a buffer read from a file
BenInput(b) ==
    /\ ben_pc = "start"
    /\ encoded' = b
    /\ ben_pc' = "input"
    /\ UNCHANGED <<ben_value, decoded, reencoded, pmvars, peervars, codecvars, hsvars, metavars,
                   wirevars>>

\* decode_to_vec(&buffer)
BenDecode ==
    /\ ben_pc \in {"encoded", "input"}
    /\ decoded' = decode_to_vec(encoded)
    /\ ben_pc' = IF ben_pc = "encoded" THEN "decoded" ELSE "decoded_input"
    /\ UNCHANGED <<ben_value, encoded, reencoded, pmvars, peervars, codecvars, hsvars, metavars,
                   wirevars>>

\* encode(&vec[0]) of the value decoded from a file
BenReencode ==
    /\ ben_pc = "decoded_input"
    /\ decoded.result = "Ok"
    /\ decoded.value # << >>
    /\ reencoded' = encode(decoded.value[1])
    /\ ben_pc' = "reencoded"
    /\ UNCHANGED <<ben_value, encoded, decoded, pmvars, peervars, codecvars, hsvars, metavars,
                   wirevars>>

BenNext ==
    \/ \E v \in BValues : BenEncode(v)
    \/ \E b \in BInputs : BenInput(b)
    \/ BenDecode
    \/ BenReencode

(***************************************************************************)
(* Torrent metadata (meta_info.rs, torrent.rs): Torrent::from_file and the *)
(* from_bencodemap functions of MetaInfo, TorrentInfo and FileInfo.        *)
(***************************************************************************)
\* the keys, as bytes
\* "announce"
ANNOUNCE_KEY == <<97, 110, 110, 111, 117, 110, 99, 101>>
\* "info"
INFO_KEY == <<105, 110, 102, 111>>
\* "nodes"
NODES_KEY == <<110, 111, 100, 101, 115>>
\* "announce-list"
ANNOUNCE_LIST_KEY == <<97, 110, 110, 111, 117, 110, 99, 101, 45, 108, 105, 115, 116>>
\* "url-list"
URL_LIST_KEY == <<117, 114, 108, 45, 108, 105, 115, 116>>
\* "name"
NAME_KEY == <<110, 97, 109, 101>>
\* "piece length"
PIECE_LENGTH_KEY == <<112, 105, 101, 99, 101, 32, 108, 101, 110, 103, 116, 104>>
\* "pieces"
PIECES_KEY == <<112, 105, 101, 99, 101, 115>>
\* "length"
LENGTH_KEY == <<108, 101, 110, 103, 116, 104>>
\* "files"
FILES_KEY == <<102, 105, 108, 101, 115>>
\* "private"
PRIVATE_KEY == <<112, 114, 105, 118, 97, 116, 101>>
\* "path"
PATH_KEY == <<112, 97, 116, 104>>
ANNOUNCE_VALUES == {ANNOUNCE_KEY, NODES_KEY, ANNOUNCE_LIST_KEY, URL_LIST_KEY}
INFO_XOR_VALUES == {LENGTH_KEY, FILES_KEY}

\* Option<T>; Nothing is Option::None
Some(x) == [some |-> TRUE, value |-> x]
Nothing == [some |-> FALSE, value |-> << >>]

\* String::from_utf8 succeeds: the strings of the model are ASCII
IsUtf8(bytes) == \A k \in DOMAIN bytes : bytes[k] < 128

\* T::try_from(&BencodeType) for the types T the metadata is read as
TryFromItem(T, v) ==
    CASE T \in {"String", "PathBuf"} ->
            IF v.type = "String" /\ IsUtf8(v.bytes) THEN Some(v.bytes) ELSE Nothing
      [] T = "i64" -> IF v.type = "Integer" THEN Some(v.int) ELSE Nothing
      [] T = "BencodeMap" -> IF v.type = "Dictionary" THEN Some(v.map) ELSE Nothing
      [] T = "Vec<u8>" -> IF v.type = "String" THEN Some(v.bytes) ELSE Nothing

\* Vec<T>::try_from: a list whose items all convert
TryFromVec(T, v) ==
    IF v.type = "List" /\ \A k \in DOMAIN v.items : TryFromItem(T, v.items[k]).some
    THEN Some([k \in DOMAIN v.items |-> TryFromItem(T, v.items[k]).value])
    ELSE Nothing

try_from(T, v) ==
    CASE T = "Vec<String>" -> TryFromVec("String", v)
      [] T = "Vec<PathBuf>" -> TryFromVec("PathBuf", v)
      [] T = "Vec<BencodeMap>" -> TryFromVec("BencodeMap", v)
      [] OTHER -> TryFromItem(T, v)

\* BencodeMap::get_decode::<T>(key)
get_decode(self, key, T) ==
    IF key \in DOMAIN self THEN try_from(T, self[key]) ELSE Nothing

\* the function pushes to a vector in a loop that never ends
Diverges == [result |-> "Diverges", value |-> "loop"]

MissingValue(text) == Err(<<"MissingValue", text>>)

\* FileInfo::is_valid_bencodemap and FileInfo::from_bencodemap
FileInfo_is_valid_bencodemap(bencode_map) ==
    LENGTH_KEY \in DOMAIN bencode_map /\ PATH_KEY \in DOMAIN bencode_map

FileInfo_from_bencodemap(bencode_map) ==
    IF ~FileInfo_is_valid_bencodemap(bencode_map)
    THEN MissingValue("Map is missing required values")
    ELSE IF ~get_decode(bencode_map, NAME_KEY, "i64").some THEN MissingValue("pieces")
    ELSE IF ~get_decode(bencode_map, PIECE_LENGTH_KEY, "Vec<PathBuf>").some
    THEN MissingValue("pieces")
    ELSE Ok([length |-> get_decode(bencode_map, NAME_KEY, "i64").value,
             path |-> get_decode(bencode_map, PIECE_LENGTH_KEY, "Vec<PathBuf>").value])

\* TorrentInfo::is_valid_bencodemap
TorrentInfo_is_valid_bencodemap(bencode_map) ==
    /\ \E k \in DOMAIN bencode_map : IsUtf8(k) /\ k \in INFO_XOR_VALUES
    /\ NAME_KEY \in DOMAIN bencode_map

\* TorrentInfo::from_bencodemap.  The loop over files takes a new iterator
\* at every turn: with a first file that converts it never ends.
TorrentInfo_from_bencodemap(bencode_map) ==
    LET name == get_decode(bencode_map, NAME_KEY, "String")
        pieceLength == get_decode(bencode_map, PIECE_LENGTH_KEY, "i64")
        pieces == get_decode(bencode_map, PIECES_KEY, "Vec<u8>")
        length == get_decode(bencode_map, LENGTH_KEY, "i64")
        files == get_decode(bencode_map, FILES_KEY, "Vec<BencodeMap>")
        private == get_decode(bencode_map, PRIVATE_KEY, "i64")
    IN  IF ~TorrentInfo_is_valid_bencodemap(bencode_map)
        THEN MissingValue("Map is missing required values")
        ELSE IF ~name.some THEN MissingValue("name")
        ELSE IF ~pieceLength.some THEN MissingValue("piece length")
        ELSE IF ~pieces.some THEN MissingValue("pieces")
        ELSE IF files.some /\ files.value # << >>
        THEN IF FileInfo_from_bencodemap(files.value[1]).result = "Ok"
             THEN Diverges
             ELSE FileInfo_from_bencodemap(files.value[1])
        ELSE Ok([name |-> name.value, piece_length |-> pieceLength.value,
                 pieces |-> pieces.value, length |-> length, files |-> Nothing,
                 private |-> private])

\* MetaInfo::is_valid_bencodemap
MetaInfo_is_valid_bencodemap(bencode_map) ==
    /\ \E k \in DOMAIN bencode_map : IsUtf8(k) /\ k \in ANNOUNCE_VALUES
    /\ INFO_KEY \in DOMAIN bencode_map

\* MetaInfo::from_bencodemap
MetaInfo_from_bencodemap(bencode_map) ==
    LET announce == get_decode(bencode_map, ANNOUNCE_LIST_KEY, "String")
        nodes == get_decode(bencode_map, NODES_KEY, "Vec<String>")
        announce_list == get_decode(bencode_map, ANNOUNCE_KEY, "Vec<String>")
        url_list == get_decode(bencode_map, URL_LIST_KEY, "Vec<String>")
        info == get_decode(bencode_map, INFO_KEY, "BencodeMap")
    IN  IF ~MetaInfo_is_valid_bencodemap(bencode_map)
        THEN MissingValue("Map is missing required values")
        ELSE IF ~info.some THEN MissingValue("info")
        ELSE IF TorrentInfo_from_bencodemap(info.value).result # "Ok"
        THEN TorrentInfo_from_bencodemap(info.value)
        ELSE Ok([announce |-> announce,
                 info |-> TorrentInfo_from_bencodemap(info.value).value,
                 nodes |-> nodes, announce_list |-> announce_list,
                 url_list |-> url_list])

\* Torrent::from_file, after fs::read
from_file(file_contents) ==
    LET bencode_vec == decode_to_vec(file_contents)
    IN  IF bencode_vec.result # "Ok" THEN Err(<<"BencodeParseErr", bencode_vec.value>>)
        ELSE IF bencode_vec.value # << >> /\ bencode_vec.value[1].type = "Dictionary"
        THEN MetaInfo_from_bencodemap(bencode_vec.value[1].map)
        ELSE Err(<<"InvalidFile", "">>)

\* the bytes the info-hash is taken of: the canonical re-encoding of the
\* info sub-dictionary of the metadata dictionary M
info_hash_input(M) == encode(M[INFO_KEY])

\* info_hash(M) = SHA1(encode(M["info"]))
info_hash(M) == SHA1(info_hash_input(M))

\* a dictionary as a file holds it: the keys and the encoded values of the
\* sequence pairs, in its order
RECURSIVE RawPairs(_)
RawPairs(pairs) ==
    IF pairs = << >> THEN << >>
    ELSE encode_string(Head(pairs)[1]) \o Head(pairs)[2] \o RawPairs(Tail(pairs))

Raw(pairs) == <<DICTIONARY_PREFIX>> \o RawPairs(pairs) \o <<DICTIONARY_SUFFIX>>

\* the pairs of the info dictionary of a single-file torrent: name "n",
\* piece length 2, pieces "h", length 3
InfoPairs ==
    {<<NAME_KEY, encode(String(<<110>>))>>, <<PIECE_LENGTH_KEY, encode(Integer(2))>>,
     <<PIECES_KEY, encode(String(<<104>>))>>, <<LENGTH_KEY, encode(Integer(3))>>}

\* the info dictionary with its pairs in every order, and in the order of
\* the keys
InfoOrders == OrdersOf(InfoPairs)
SortedInfo == CHOOSE o \in InfoOrders : IsAscending([k \in DOMAIN o |-> o[k][1]])

\* the pairs a torrent file holds before info: announce is absent or the
\* URL "u", announce-list is absent, the list ["v"] or the string "w"
Trackers ==
    {a \o l : a \in {<< >>, <<<<ANNOUNCE_KEY, encode(String(<<117>>))>>>>},
              l \in {<< >>,
                     <<<<ANNOUNCE_LIST_KEY, encode(List(<<String(<<118>>)>>))>>>>,
                     <<<<ANNOUNCE_LIST_KEY, encode(String(<<119>>))>>>>}}

\* a torrent file: the tracker pairs t, then info with its pairs in order o
TorrentFile(t, o) == Raw(t \o <<<<INFO_KEY, Raw(o)>>>>)

TorrentFiles ==
    {TorrentFile(t, o) : t \in Trackers, o \in InfoOrders} \cup {Raw(t) : t \in Trackers}

\* a file dictionary as torrents hold it, and one that FileInfo converts
FileMap == Insert(Insert(EmptyMap, LENGTH_KEY, Integer(1)), PATH_KEY, List(<<String(<<112>>)>>))
ConvertedFileMap ==
    Insert(Insert(FileMap, NAME_KEY, Integer(1)), PIECE_LENGTH_KEY, List(<<String(<<112>>)>>))

\* the info dictionaries given to TorrentInfo::from_bencodemap: every key
\* is absent or present, files with several values
InfoKeys == {NAME_KEY, PIECE_LENGTH_KEY, PIECES_KEY, LENGTH_KEY, FILES_KEY, PRIVATE_KEY}

InfoChoices(k) ==
    CASE k = NAME_KEY -> {String(<<110>>)}
      [] k = PIECE_LENGTH_KEY -> {Integer(2)}
      [] k = PIECES_KEY -> {String(<<104>>)}
      [] k = LENGTH_KEY -> {Integer(3)}
      [] k = FILES_KEY -> {List(<< >>), List(<<Dictionary(FileMap)>>),
                           List(<<Dictionary(ConvertedFileMap)>>), Integer(1)}
      [] k = PRIVATE_KEY -> {Integer(1)}

InfoMaps ==
    UNION {{m \in [S -> UNION {InfoChoices(k) : k \in S}] :
                \A k \in S : m[k] \in InfoChoices(k)} :
           S \in SUBSET InfoKeys}

MetaInit ==
    /\ meta_pc = "start"
    /\ contents = << >>
    /\ info_map = EmptyMap
    /\ meta_result = NoResult
    /\ hash_input = << >>
    /\ hash = SHA1(<< >>)

\* Torrent::from_file(path) of a file that holds c; the info-hash is taken
\* when the metadata decodes
FromFile(c) ==
    /\ meta_pc = "start"
    /\ contents' = c
    /\ meta_result' = from_file(c)
    /\ hash_input' = IF from_file(c).result = "Ok"
                     THEN info_hash_input(decode_to_vec(c).value[1].map) ELSE << >>
    /\ hash' = IF from_file(c).result = "Ok"
               THEN info_hash(decode_to_vec(c).value[1].map) ELSE hash
    /\ meta_pc' = "loaded"
    /\ UNCHANGED <<info_map, pmvars, peervars, codecvars, hsvars, benvars,
                   wirevars>>

\* TorrentInfo::from_bencodemap(&m)
InfoFromBencodemap(m) ==
    /\ meta_pc = "start"
    /\ info_map' = m
    /\ meta_result' = TorrentInfo_from_bencodemap(m)
    /\ meta_pc' = "info"
    /\ UNCHANGED <<contents, hash_input, hash, pmvars, peervars, codecvars, hsvars, benvars,
                   wirevars>>

MetaNext ==
    \/ \E c \in TorrentFiles : FromFile(c)
    \/ \E m \in InfoMaps : InfoFromBencodemap(m)

(***************************************************************************)
(* One peer worker over the bytes of its TCP stream (peer.rs): the reads   *)
(* of send_message and wait_for_message take whatever bytes have arrived   *)
(* into a fresh zeroed buffer and give the whole buffer to from_bytes.     *)
(***************************************************************************)
\* peer.rs:196 and 302, the buffer of 100000 bytes, scaled to the messages
\* of the model
BUFFER_SIZE == 16

\* number of messages the remote peer sends
MaxSent == 3

\* let mut buf = [0; 100000]; stream.try_read(&mut buf) that read `chunk`
ZeroFilled(chunk) ==
    [k \in 1..BUFFER_SIZE |-> IF k <= Len(chunk) THEN chunk[k] ELSE 0]

\* Message.id: None for KeepAlive, else the MessageId
IdOfMessage(m) ==
    CASE m.type = "KeepAlive" -> None
      [] m.type \in {"Choke", "Unchoke", "Interested", "NotInterested"} -> IdOf(m.type)
      [] m.type = "Have" -> Have
      [] m.type = "Bitfield" -> Bitfield
      [] m.type = "Request" -> Request
      [] m.type = "Piece" -> Piece
      [] m.type = "Cancel" -> Cancel
      [] m.type = "Port" -> Port

\* Message.payload: the bytes after the id, << >> for None
PayloadOf(m) == Advance(to_bytes(m), Min(HEADER_SIZE, Len(to_bytes(m))))

\* what the remote peer sends: KeepAlive, Unchoke, a Bitfield whose bytes
\* read like the frame of an Unchoke, and a Piece carrying one block
StreamMessages ==
    {KeepAlive, NoPayload("Unchoke"), Message_Bitfield(<<0, 0, 0, 1, 1>>)}
    \cup {Message_Piece(piece_index, 0, b) : b \in [1..MAX_BLOCK_SIZE -> Byte]}

\* how many bytes have arrived when the worker reads: the first
\* HEADER_SIZE bytes of what was sent, or all of it up to the buffer size
Arrived == {Min(HEADER_SIZE, Len(st_inflight)), Min(BUFFER_SIZE, Len(st_inflight))}

\* the worker is in the read loop of send_message or of wait_for_message
Reading == {"reply_interested", "wait_unchoke", "reply_request", "wait_piece"}

\* download_piece has ended
StreamEnded == {"done", "failed", "panicked"}

StreamInit ==
    /\ st_pc = "download_piece"
    /\ st_inflight = << >>
    /\ st_sent = << >>
    /\ st_closed = FALSE
    /\ st_parsed = << >>
    /\ st_written = << >>
    /\ st_block = 0
    /\ st_buffer = << >>
    /\ st_res = KeepAlive

\* the remote peer writes a message
PeerSends(m) ==
    /\ ~st_closed
    /\ Len(st_sent) < MaxSent
    /\ st_sent' = Append(st_sent, m)
    /\ st_inflight' = st_inflight \o to_bytes(m)
    /\ UNCHANGED <<st_pc, st_closed, st_parsed, st_written, st_block, st_buffer, st_res,
                   pmvars, peervars, codecvars, hsvars, benvars, metavars, blockvars>>

\* the remote peer closes the connection
PeerCloses ==
    /\ ~st_closed
    /\ st_closed' = TRUE
    /\ UNCHANGED <<st_pc, st_inflight, st_sent, st_parsed, st_written, st_block,
                   st_buffer, st_res,
                   pmvars, peervars, codecvars, hsvars, benvars, metavars, blockvars>>

\* download_piece: the Interested message is written (send_message, the
\* write loop)
WriteInterested ==
    /\ st_pc = "download_piece"
    /\ st_pc' = "reply_interested"
    /\ st_written' = Append(st_written, "Interested")
    /\ UNCHANGED <<st_inflight, st_sent, st_closed, st_parsed, st_block, st_buffer, st_res,
                   pmvars, peervars, codecvars, hsvars, benvars, metavars, blockvars>>

\* download_piece: the Request of the next block is written
WriteRequest ==
    /\ st_pc = "request"
    /\ st_pc' = "reply_request"
    /\ st_written' = Append(st_written, "Request")
    /\ UNCHANGED <<st_inflight, st_sent, st_closed, st_parsed, st_block, st_buffer, st_res,
                   pmvars, peervars, codecvars, hsvars, benvars, metavars, blockvars>>

\* download_piece: the end of one iteration of the block loop with the
\* outer `res`; after the last block the hash of the buffer is compared
StreamEndOfBlock(reply) ==
    IF PayloadOf(reply) # << >> /\ Len(PayloadOf(reply)) < 8
    THEN /\ st_pc' = "panicked"
         /\ UNCHANGED <<st_block, st_buffer>>
    ELSE LET buffer == IF PayloadOf(reply) = << >> THEN st_buffer
                       ELSE st_buffer \o Advance(PayloadOf(reply), 8)
         IN  /\ st_buffer' = buffer
             /\ st_block' = st_block + 1
             /\ st_pc' = IF st_block + 1 < num_blocks THEN "request"
                         ELSE IF SHA1(buffer) # piece_hash THEN "failed"
                         ELSE "done"

\* what the worker does with the result of Message::from_bytes(&buf)
Dispatch(r) ==
    CASE r.result = "Err" ->
            /\ st_pc' = "failed"
            /\ UNCHANGED <<st_res, st_block, st_buffer>>
      [] r.result = "Panic" ->
            /\ st_pc' = "panicked"
            /\ UNCHANGED <<st_res, st_block, st_buffer>>
      [] r.result = "Ok" /\ st_pc \in {"reply_interested", "wait_unchoke"} ->
            /\ st_pc' = IF IdOfMessage(r.value) = Unchoke THEN "request"
                        ELSE "wait_unchoke"
            /\ UNCHANGED <<st_res, st_block, st_buffer>>
      [] r.result = "Ok" /\ st_pc = "reply_request" ->
            /\ st_res' = r.value
            /\ IF IdOfMessage(r.value) = Piece THEN StreamEndOfBlock(r.value)
               ELSE /\ st_pc' = "wait_piece"
                    /\ UNCHANGED <<st_block, st_buffer>>
      [] r.result = "Ok" /\ st_pc = "wait_piece" ->
            /\ UNCHANGED st_res
            /\ IF IdOfMessage(r.value) = Piece THEN StreamEndOfBlock(st_res)
               ELSE UNCHANGED <<st_pc, st_block, st_buffer>>

\* stream.try_read(&mut buf) returns Ok(n) with the first n bytes that have
\* arrived, and the buffer goes to Message::from_bytes
TryRead(n) ==
    /\ st_pc \in Reading
    /\ n >= 1
    /\ n \in Arrived
    /\ st_inflight' = Advance(st_inflight, n)
    /\ LET r == from_bytes(ZeroFilled(SubSeq(st_inflight, 1, n)))
       IN  /\ st_parsed' = IF r.result = "Ok" THEN Append(st_parsed, r.value)
                           ELSE st_parsed
           /\ Dispatch(r)
    /\ UNCHANGED <<st_sent, st_closed, st_written,
                   pmvars, peervars, codecvars, hsvars, benvars, metavars, blockvars>>

\* stream.try_read(&mut buf) returns Ok(0) at the end of a stream the peer
\* has closed: the buffer is all zeros
TryReadEof ==
    /\ st_pc \in Reading
    /\ st_closed
    /\ st_inflight = << >>
    /\ Dispatch(from_bytes(ZeroFilled(<< >>)))
    /\ UNCHANGED <<st_inflight, st_sent, st_closed, st_parsed, st_written,
                   pmvars, peervars, codecvars, hsvars, benvars, metavars, blockvars>>

\* write_all or try_read returns an error other than WouldBlock (the
\* connection was reset): download_piece returns it
StreamFails ==
    /\ st_pc \in Reading \cup {"download_piece", "request"}
    /\ st_pc' = "failed"
    /\ UNCHANGED <<st_inflight, st_sent, st_closed, st_parsed, st_written, st_block,
                   st_buffer, st_res,
                   pmvars, peervars, codecvars, hsvars, benvars, metavars, blockvars>>

StreamNext ==
    \/ \E m \in StreamMessages : PeerSends(m)
    \/ PeerCloses
    \/ WriteInterested
    \/ WriteRequest
    \/ \E n \in 1..BUFFER_SIZE : TryRead(n)
    \/ TryReadEof
    \/ StreamFails

\* the runtime polls the worker task whenever its socket is ready
StreamFairness ==
    /\ WF_vars(WriteInterested)
    /\ WF_vars(WriteRequest)
    /\ WF_vars(\E n \in 1..BUFFER_SIZE : TryRead(n))
    /\ WF_vars(TryReadEof)

(***************************************************************************)
(* The Requests of download_piece for piece 0 of a torrent, with the block *)
(* size of the source (peer.rs:136-157, peer_manager.rs:92-116).           *)
(***************************************************************************)
\* peer.rs:137 MAX_BLOCK_SIZE = 2^14, unscaled
MAX_BLOCK_SIZE_BYTES == 16384

\* piece lengths and total lengths of the torrents: around the multiples of
\* the block size
PieceLengths ==
    {1, 2, 16383, 16384, 16385, 20000, 32767, 32768, 32769, 49152, 50000}
TotalLengths == {1, 16384, 20000, 32768, 40000, 49152, 100000}

\* the length of piece 0 of a torrent
FirstPieceLength(piece_len, total) == Min(piece_len, total)

\* download_piece: num_blocks
NumBlocks(piece_len) ==
    (piece_len + MAX_BLOCK_SIZE_BYTES - 1) \div MAX_BLOCK_SIZE_BYTES

BlockInit ==
    /\ blk_pc = "start"
    /\ blk_piece_length = 0
    /\ blk_total_length = 0
    /\ blk_index = 0
    /\ blk_remaining = 0
    /\ blk_requests = << >>

\* connect_to_peers: download_piece(0, meta_info.info.piece_length, ..) for
\* a torrent of the given piece length and total length, up to the loop
DownloadPiece(piece_len, total) ==
    /\ blk_pc = "start"
    /\ blk_piece_length' = piece_len
    /\ blk_total_length' = total
    /\ blk_remaining' = piece_len
    /\ blk_index' = 0
    /\ blk_pc' = "loop"
    /\ UNCHANGED <<blk_requests,
                   pmvars, peervars, codecvars, hsvars, benvars, metavars, streamvars>>

\* download_piece: one iteration of the block loop, the Request it sends
\* (the reply does not enter the next Request)
RequestBlock ==
    /\ blk_pc = "loop"
    /\ blk_index < NumBlocks(blk_piece_length)
    /\ LET offset == blk_index * MAX_BLOCK_SIZE_BYTES
           block_size == Min(MAX_BLOCK_SIZE_BYTES, blk_remaining)
       IN  /\ blk_remaining' = blk_remaining - block_size
           /\ blk_requests' = Append(blk_requests, <<piece_index, offset, block_size>>)
    /\ blk_index' = blk_index + 1
    /\ UNCHANGED <<blk_pc, blk_piece_length, blk_total_length,
                   pmvars, peervars, codecvars, hsvars, benvars, metavars, streamvars>>

\* download_piece: the block loop ends
BlocksDone ==
    /\ blk_pc = "loop"
    /\ blk_index >= NumBlocks(blk_piece_length)
    /\ blk_pc' = "end"
    /\ UNCHANGED <<blk_piece_length, blk_total_length, blk_index, blk_remaining,
                   blk_requests,
                   pmvars, peervars, codecvars, hsvars, benvars, metavars, streamvars>>

BlockNext ==
    \/ \E piece_len \in PieceLengths, total \in TotalLengths :
           DownloadPiece(piece_len, total)
    \/ RequestBlock
    \/ BlocksDone

(***************************************************************************)
(* The specifications.                                                     *)
(***************************************************************************)
Init ==
    /\ PMInit /\ PeerInit /\ CodecInit /\ HsInit /\ BenInit /\ MetaInit
    /\ StreamInit /\ BlockInit

\* the piece manager under concurrent workers
Spec == Init /\ [][PMNext]_vars

\* the bitfield of a peer that has every piece
FullBitfield == <<ByteOf(0..(NumPieces - 1))>>

\* the piece manager under one more worker and a peer that has every piece
\* and delivers the content; no file operation fails
RaceNext ==
    \/ \E c \in AllWorkers : GetNextPiece(c, FullBitfield)
    \/ \E c \in AllWorkers : GetNextPieceScan(c)
    \/ \E c \in AllWorkers : AddPiece(c, Content(held[c]))
    \/ \E c \in AllWorkers : UpdateBitfield(c)
    \/ \E c \in AllWorkers : ShouldSave(c)
    \/ \E c \in AllWorkers : SaveToDisk(c)
    \/ \E c \in AllWorkers : SaveOpen(c)
    \/ \E c \in AllWorkers : SaveRead(c)
    \/ \E c \in AllWorkers : SaveWrite(c)
    \/ \E c \in AllWorkers : SaveMark(c)
    \/ \E c \in AllWorkers : SaveSync(c)

SpecRace == Init /\ [][RaceNext]_vars

\* The piece manager when file I/O completes: every operation but a failing
\* file operation.  A call in flight is scheduled again (the runtime polls
\* every task that can run), and a writer that waits for the bitfield gets
\* it once the readers have left, though new readers keep arriving.
LockNext ==
    \/ \E c \in Workers, tb \in TheirBitfields : GetNextPiece(c, tb)
    \/ \E c \in Workers : GetNextPieceScan(c)
    \/ \E c \in Workers, bytes \in PieceBytes : AddPiece(c, bytes)
    \/ \E c \in Workers : UpdateBitfield(c)
    \/ \E c \in Workers : ShouldSave(c)
    \/ \E c \in Workers : SaveToDisk(c)
    \/ \E c \in Workers : SaveOpen(c)
    \/ \E c \in Workers : SaveRead(c)
    \/ \E c \in Workers : SaveWrite(c)
    \/ \E c \in Workers : SaveMark(c)
    \/ \E c \in Workers : SaveSync(c)
    \/ \E c \in Workers : CancelPiece(c)

LockFairness ==
    \A c \in Workers :
        /\ WF_vars(GetNextPieceScan(c))
        /\ SF_vars(UpdateBitfield(c))
        /\ WF_vars(ShouldSave(c))
        /\ WF_vars(SaveOpen(c))
        /\ WF_vars(SaveRead(c))
        /\ WF_vars(SaveWrite(c))
        /\ WF_vars(SaveMark(c))
        /\ WF_vars(SaveSync(c))

SpecLocks == Init /\ [][LockNext]_vars /\ LockFairness

\* the peer workers of connect_to_peers
InitPeers == Init /\ ~file.exists
SpecPeers == InitPeers /\ [][PeerNext]_vars

\* the message codec applied to every message and to its truncations
SpecCodec == InitPeers /\ [][CodecNext]_vars

\* the handshake by itself
SpecHandshake == InitPeers /\ [][HsNext]_vars

\* bencode by itself
SpecBencode == InitPeers /\ [][BenNext]_vars

\* the torrent metadata by itself
SpecMeta == InitPeers /\ [][MetaNext]_vars

\* one peer worker over the bytes of its stream
SpecStream == InitPeers /\ [][StreamNext]_vars

\* the same with the worker task scheduled
SpecStreamLive == InitPeers /\ [][StreamNext]_vars /\ StreamFairness

\* the Requests of download_piece
SpecBlocks == InitPeers /\ [][BlockNext]_vars

(***************************************************************************)
(* Properties of the piece manager (Spec).                                 *)
(***************************************************************************)
Verified(status) == status.tag \in {"Completed", "OnDisk"}

\* get_next_piece returns to worker c in this step, with an index
HandedOut(c) == pc[c] # "downloading" /\ pc'[c] = "downloading"

\* C1: an index that get_next_piece has returned is not returned by another
\* call until add_piece or cancel_piece was called for it: no two workers
\* hold the same index between get_next_piece and their add_piece or
\* cancel_piece (SpecRace).
C1_OneHandout ==
    \A c, d \in AllWorkers :
        (c # d /\ pc[c] = "downloading" /\ pc[d] = "downloading") => held[c] # held[d]

\* C3: bit i of the bitfield is set if and only if the status of piece i is
\* Completed or OnDisk, in every state between two critical sections.
C3_BitfieldIsMapView ==
    \A i \in Indices : HasBit(bitfield, i) <=> Verified(piece_map[i])

\* C4: get_next_piece never returns the index of a piece whose status is
\* Completed or OnDisk.
C4_VerifiedNeverHandedOut ==
    [][\A c \in AllWorkers : HandedOut(c) => ~Verified(piece_map[held'[c]])]_vars

\* C5: once add_piece(i, b) has returned true, bit i of the bitfield is set
\* in every later state and no later get_next_piece call returns i.
C5_AddedStaysAdded ==
    /\ [](\A i \in added : HasBit(bitfield, i))
    /\ [][\A c \in AllWorkers : HandedOut(c) => held'[c] \notin added]_vars

\* a scan passes over an added index that the peer advertises
C5_Witness ==
    \E c \in AllWorkers, i \in added :
        pc[c] = "scan" /\ HasBit(their[c], i) /\ pos[c] > i

\* C6: add_piece returns false exactly when the hash of the bytes differs
\* from the expected hash of the index, and the status of the index is
\* NotStarted when it returns false.
C6_AddPieceResult ==
    /\ [](\A c \in AllWorkers :
            ret[c].op = "add_piece" => (ret[c].val = FALSE <=> ~ret[c].hash_equal))
    /\ [][\A c \in AllWorkers :
            (pc[c] = "downloading" /\ ret'[c].op = "add_piece" /\ ret'[c].val = FALSE)
                => piece_map'[held[c]] = NotStarted]_vars

\* add_piece has returned false for a piece of the torrent, which is
\* NotStarted, and true for another
C6_Witness ==
    \E c, d \in AllWorkers :
        /\ ret[c].op = "add_piece" /\ ~ret[c].val /\ ret[c].idx \in DOMAIN piece_hashes
        /\ piece_map[ret[c].idx] = NotStarted
        /\ ret[d].op = "add_piece" /\ ret[d].val

\* C7: cancel_piece(i) sets the status of i to NotStarted when it is
\* InProgress or absent and leaves it unchanged when it is Completed or
\* OnDisk.
C7_CancelNeverDowngrades ==
    [][\A c \in AllWorkers :
        (pc[c] \in {"downloading", "panicked"} /\ ret'[c].op = "cancel_piece")
            => IF Verified(piece_map[held[c]])
               THEN piece_map'[held[c]] = piece_map[held[c]]
               ELSE piece_map'[held[c]] = NotStarted]_vars

\* the status edges of the DAG NotStarted -> InProgress -> {NotStarted |
\* Completed -> OnDisk}; an absent entry counts as NotStarted
StatusEdge(a, b) ==
    LET from == IF a = "Absent" THEN "NotStarted" ELSE a
        to == IF b = "Absent" THEN "NotStarted" ELSE b
    IN  \/ from = to
        \/ <<from, to>> \in {<<"NotStarted", "InProgress">>, <<"InProgress", "NotStarted">>,
                             <<"InProgress", "Completed">>, <<"Completed", "OnDisk">>}

\* C8: every change of a piece's status follows an edge of the DAG.
C8_StatusDag ==
    [][\A i \in Indices : StatusEdge(piece_map[i].tag, piece_map'[i].tag)]_vars

\* C9: a Completed piece holds bytes of the expected hash, and a piece is
\* OnDisk only after bytes of the expected hash were written to or read from
\* its file offset.
C9_VerifiedBytes ==
    \A i \in Indices :
        /\ piece_map[i].tag = "Completed" => HashMatches(i, piece_map[i].bytes)
        /\ piece_map[i].tag = "OnDisk" => i \in io_ok

\* one piece is Completed in memory while another one, which add_piece
\* accepted in this run, has been flushed to its file offset
C9_Witness ==
    \E i, j \in Indices :
        /\ piece_map[i].tag = "Completed"
        /\ piece_map[j].tag = "OnDisk" /\ j \in added
        /\ HashMatches(j, ReadExact(file.data, j * piece_length, PieceLen(j)))

\* save_to_disk of worker c returns Ok in this step (to its caller, or
\* inside add_piece, which then returns true)
SaveReturnsOk(c) ==
    /\ pc[c] = "save_read" /\ index[c] >= NumPieces /\ pc'[c] = "idle"
    /\ ret'[c].val

\* save_to_disk of worker c returns an error in this step (to its caller,
\* or inside add_piece, whose unwrap panics)
SaveReturnsErr(c) ==
    /\ pc[c] \in {"save_open", "save_read", "save_write"}
    /\ \/ pc'[c] = "panicked"
       \/ pc'[c] = "idle" /\ ret'[c].op = "save_to_disk" /\ ~ret'[c].val

\* C12: when save_to_disk returns Ok, every piece that was Completed(b) when
\* it was called is OnDisk and the file holds b at offset i * piece_length
\* (SpecRace).
C12_FlushedPiecesOnDisk ==
    [][\A c \in AllWorkers :
        SaveReturnsOk(c) =>
            \A p \in completed_at_call[c] :
                /\ piece_map'[p[1]] = OnDisk
                /\ ReadExact(file'.data, p[1] * piece_length, Len(p[2])) = p[2]]_vars

\* C13: when save_to_disk fails, every piece that was Completed when it was
\* called is still Completed with its bytes.
C13_FailedFlushKeepsCompleted ==
    [][\A c \in AllWorkers :
        SaveReturnsErr(c) =>
            \A p \in completed_at_call[c] : piece_map'[p[1]] = Completed(p[2])]_vars

\* total bytes of the Completed pieces of the state map
RECURSIVE CompletedBytes(_)
CompletedBytes(ps) ==
    IF ps = {} THEN 0
    ELSE LET p == CHOOSE x \in ps : TRUE
         IN  Len(p[2]) + CompletedBytes(ps \ {p})

\* C14: add_piece starts a flush only if the Completed bytes in memory
\* exceed the threshold or every piece of the torrent is Completed or
\* OnDisk.
C14_FlushOnlyWhenDue ==
    [][\A c \in AllWorkers :
        (pc[c] = "add_should_save" /\ pc'[c] = "save_open") =>
            \/ CompletedBytes(CompletedNow) > SAVE_BYTES_THRESHOLD
            \/ \A i \in 0..(NumPieces - 1) : Verified(piece_map[i])]_vars

\* the output file holds bytes of the expected hash at the offset of piece i
FileHolds(i) ==
    /\ file.exists
    /\ HashMatches(i, ReadExact(file.data, i * piece_length, PieceLen(i)))

\* C15: every piece the output file holds at its offset, the short final
\* piece included, is OnDisk with its bit set in a piece manager created
\* from that file, and loading again changes nothing.
C15_ResumeRoundTrip ==
    /\ \A i \in 0..(NumPieces - 1) :
          FileHolds(i) => (new(file).map[i] = OnDisk /\ HasBit(new(file).bf, i))
    /\ file.exists =>
          /\ LoadFrom(0, file.data, new(file)).map = new(file).map
          /\ LoadFrom(0, file.data, new(file)).bf = new(file).bf

\* get_next_piece of worker c returns in this step
GetNextPieceReturns(c) == ret'[c].op = "get_next_piece" /\ ret'[c] # ret[c]

\* the indices get_next_piece may return for their_bitfield tb: our bit
\* clear, their bit set, status NotStarted or absent
Qualifying(tb) ==
    {i \in Indices : DiffBit(bitfield, tb, i)
                      /\ piece_map[i].tag \in {"NotStarted", "Absent"}}

\* C16: get_next_piece returns the lowest qualifying index and marks it
\* InProgress, and returns None exactly when no index qualifies (SpecRace:
\* their_bitfield has every piece).
C16_LowestQualifying ==
    [][\A c \in AllWorkers :
        GetNextPieceReturns(c) =>
            LET Q == Qualifying(FullBitfield)
            IN  IF ret'[c].val
                THEN /\ ret'[c].idx \in Q
                     /\ \A j \in Q : ret'[c].idx <= j
                     /\ piece_map'[ret'[c].idx] = InProgress
                ELSE Q = {}]_vars

(***************************************************************************)
(* Properties of the peer workers (SpecPeers).                             *)
(***************************************************************************)
\* the worker is in the block loop of download_piece
Requesting(w) == wpc[w] \in {"request", "wait_piece"} /\ requests[w] # << >>

\* the piece index of the last Request the worker sent
RequestedIndex(w) == requests[w][Len(requests[w])][1]

\* C2: no two workers send Requests for the same piece index at the same
\* time.
C2_DistinctPieces ==
    \A w, v \in Peers :
        (w # v /\ Requesting(w) /\ Requesting(v)) => RequestedIndex(w) # RequestedIndex(v)

\* C10: a worker that ends abnormally while it holds a piece index has
\* called cancel_piece for that index.
C10_CancelOnAbnormalExit ==
    \A w \in Peers :
        wpc[w] \in {"failed", "panicked"} => piece_index \in cancel_calls[w]

\* C11: a connection, handshake, framing or unexpected-message failure of a
\* worker ends only that worker: the supervising task never ends by a
\* panic, and it returns only after every worker has ended.
C11_WorkerFailureIsolated ==
    /\ supervisor.pc # "panicked"
    /\ supervisor.pc = "returned" => \A w \in Peers : wpc[w] \in Ended

\* the worker has exchanged messages with the peer on its socket
Exchanged(w) ==
    wpc[w] \in {"download_piece", "wait_unchoke", "request", "wait_piece", "failed",
                "done", "panicked"}

\* the handshake matches the local one in length, protocol and info-hash
Matches(hs) ==
    /\ hs.length = LocalHandshake.length
    /\ hs.protocol = LocalHandshake.protocol
    /\ hs.info_hash = LocalHandshake.info_hash

\* C17: a reply to a Request that is no Piece ends the download of the
\* piece with an UnexpectedMessage error.
C17_NonPieceReplyIsError ==
    [][\A w \in Peers :
        (wpc[w] = "request" /\ Len(requests'[w]) > Len(requests[w]) /\ res'[w].id # Piece)
            => (wpc'[w] = "failed" /\ err'[w] = "UnexpectedMessage")]_vars

C19_MessageRoundTrip ==
    codec_pc = "parsed" => (parsed.result = "Ok" /\ parsed.value = message)

\* the buffer is shorter than 4 bytes or, with a length prefix L that is not
\* zero, shorter than 4 + L bytes
Truncated(bytes) ==
    \/ Len(bytes) < LENGTH_SIZE
    \/ from_be_bytes(bytes) # 0 /\ Len(bytes) < LENGTH_SIZE + from_be_bytes(bytes)

\* C20: from_bytes returns an error value for every truncated buffer: it
\* neither yields a message nor aborts.
C20_TruncatedIsError ==
    (codec_pc = "parsed_truncated" /\ Truncated(wire)) => parsed.result = "Err"

\* the payload size the schema of a frame's id asks for
SchemaSizes(id) ==
    CASE id \in {Choke, Unchoke, Interested, NotInterested} -> {0}
      [] id = Have -> {4}
      [] id \in {Request, Cancel} -> {12}
      [] id = Port -> {2}
      [] id = Piece -> {n \in PayloadSizes : n >= 8}
      [] OTHER -> PayloadSizes

\* the id and the payload size of the frame in the buffer
FrameId == wire[HEADER_SIZE]
FramePayloadSize == Len(wire) - HEADER_SIZE

\* C21: a frame whose id is greater than 9, or whose payload size does not
\* match the schema of its id, gets an error value from from_bytes: it is
\* neither accepted as a message nor aborts the parser.
C21_BadFrameIsError ==
    (codec_pc = "parsed_frame"
        /\ (FrameId > Port \/ FramePayloadSize \notin SchemaSizes(FrameId)))
    => parsed.result = "Err"

(***************************************************************************)
(* Properties of the handshake (SpecHandshake).                            *)
(***************************************************************************)
\* C22: to_bytes(h) is exactly 68 bytes and from_bytes(to_bytes(h)) is h;
\* from_bytes fails with InvalidSize exactly when the buffer is not 68 bytes
\* long.
C22_HandshakeRoundTrip ==
    /\ (hs_pc = "serialized" => Len(hs_bytes) = 68)
    /\ (hs_pc = "parsed" =>
            /\ (hs_result = Err("InvalidSize") <=> Len(hs_bytes) # 68)
            /\ (hs_bytes = Handshake_to_bytes(handshake) => hs_result = Ok(handshake)))

\* a handshake with reserved bytes that are not zero was serialized and
\* parsed back
C22_Witness ==
    /\ hs_pc = "parsed"
    /\ hs_bytes = Handshake_to_bytes(handshake)
    /\ handshake.reserved # Repeat(0, RESERVED_SIZE)
    /\ handshake.peer_id # Repeat(0, PEER_ID_SIZE)
    /\ hs_result.result = "Ok"

\* the two handshakes agree on everything but the peer id and the reserved
\* bytes
SameButPeer(a, b) ==
    /\ a.length = b.length
    /\ a.protocol = b.protocol
    /\ a.info_hash = b.info_hash

\* C23: a.is_valid(b) is true exactly when a and b have the same length
\* byte, protocol string and info-hash; the peer ids and the reserved bytes
\* play no part, and b.is_valid(a) gives the same.
C23_IsValid ==
    hs_pc = "validated" =>
        /\ (hs_result <=> SameButPeer(handshake, other_hs))
        /\ \A a \in Handshakes :
                SameButPeer(a, handshake) => is_valid(a, other_hs) = hs_result
        /\ is_valid(other_hs, handshake) = hs_result

\* is_valid said yes to two handshakes whose peer ids and reserved bytes
\* differ
C23_Witness ==
    /\ hs_pc = "validated"
    /\ hs_result = TRUE
    /\ handshake.peer_id # other_hs.peer_id
    /\ handshake.reserved # other_hs.reserved

(***************************************************************************)
(* Properties of bencode (SpecBencode).                                    *)
(***************************************************************************)
\* C24: decoding encode(v) yields exactly the one value v, for integers,
\* byte strings, lists and dictionaries, nested.
C24_BencodeRoundTrip ==
    ben_pc = "decoded" => decoded = Ok(<<ben_value>>)

\* a dictionary that holds a list with a negative integer and a dictionary
\* with a list was encoded and decoded
C24_Witness ==
    /\ ben_pc = "decoded"
    /\ decoded.result = "Ok"
    /\ ben_value.type = "Dictionary"
    /\ DOMAIN ben_value.map = {<<97>>, <<98>>}
    /\ ben_value.map[<<98>>] = List(<<Integer(-3), String(<<101>>)>>)
    /\ ben_value.map[<<97>>] = Dictionary(Insert(EmptyMap, << >>, List(<<Integer(0)>>)))

\* the bytes are the dictionary d with its pairs in ascending order of keys
InKeyOrder(bytes, d) ==
    \E keys \in OrdersOf(DOMAIN d.map) :
        /\ IsAscending(keys)
        /\ bytes = <<DICTIONARY_PREFIX>> \o EncodePairs(d.map, keys)
                        \o <<DICTIONARY_SUFFIX>>

\* C25: encode writes the pairs of a dictionary in ascending lexicographic
\* byte order of the keys, in whatever order the keys were inserted or
\* decoded: the bytes depend on the key/value pairs only.
C25_SortedKeys ==
    /\ (ben_pc = "encoded" /\ ben_value \in BDictionaries
            => InKeyOrder(encoded, ben_value))
    /\ (ben_pc = "reencoded" /\ decoded.value[1].type = "Dictionary"
            => InKeyOrder(reencoded, decoded.value[1]))

\* a dictionary of three keys that the file held in another order was
\* decoded and encoded again
C25_Witness ==
    /\ ben_pc = "reencoded"
    /\ decoded.value[1].type = "Dictionary"
    /\ Cardinality(DOMAIN decoded.value[1].map) = 3
    /\ reencoded # encoded

\* the bytes are an optional '-' and at least one digit, and not "-0"
WellFormedInteger(s) ==
    /\ AllDigits(IF s # << >> /\ s[1] = MINUS THEN Tail(s) ELSE s)
    /\ s # <<MINUS, 48>>

\* C26: the decode of an integer succeeds only when an 'e' ends it and the
\* bytes between the leading 'i' and that 'e' are an optional '-' followed
\* by at least one digit, and not "-0".
C26_IntegerSyntax ==
    (ben_pc = "decoded_input" /\ encoded[1] = INT_PREFIX /\ decoded.result = "Ok")
    => /\ PositionOf(INT_SUFFIX, encoded, 1) <= Len(encoded)
       /\ WellFormedInteger(SubSeq(encoded, 2, PositionOf(INT_SUFFIX, encoded, 1) - 1))

(***************************************************************************)
(* Properties of the torrent metadata (SpecMeta).                          *)
(***************************************************************************)
\* C27: an info dictionary decodes only if exactly one of the keys length
\* and files is present; with both or with neither it is rejected with an
\* error.
C27_LengthXorFiles ==
    meta_pc = "info" =>
        /\ (meta_result.result = "Ok"
                => (LENGTH_KEY \in DOMAIN info_map) # (FILES_KEY \in DOMAIN info_map))
        /\ ((LENGTH_KEY \in DOMAIN info_map) = (FILES_KEY \in DOMAIN info_map)
                => meta_result.result = "Err")

\* the value the torrent file holds for a top-level key, as Option
TopLevel(key) ==
    IF key \in DOMAIN decode_to_vec(contents).value[1].map
    THEN Some(decode_to_vec(contents).value[1].map[key])
    ELSE Nothing

\* C28: the announce URL of the decoded metadata is the value of the
\* top-level announce key and the announce list the value of the
\* announce-list key: a torrent whose only tracker key is announce decodes
\* with that URL.
C28_AnnounceKeys ==
    (meta_pc = "loaded" /\ meta_result.result = "Ok") =>
        /\ (TopLevel(ANNOUNCE_KEY).some
                => meta_result.value.announce = Some(TopLevel(ANNOUNCE_KEY).value.bytes))
        /\ (TopLevel(ANNOUNCE_LIST_KEY).some
                => meta_result.value.announce_list
                        = try_from("Vec<String>", TopLevel(ANNOUNCE_LIST_KEY).value))

C37_FlushFailureReturns ==
    [][\A c \in Workers :
        (Flushing(c) /\ held[c] # None /\ ~Flushing(c)')
            => /\ pc'[c] = "idle"
               /\ ret'[c].op = "add_piece"
               /\ HasBit(bitfield', held[c])]_vars

\* C38: get_next_piece returns only indices of pieces of the torrent,
\* whatever bits the peer advertises.
C38_ReturnsExistingPiece ==
    \A c \in AllWorkers :
        (ret[c].op = "get_next_piece" /\ ret[c].val) => ret[c].idx < num_pieces

\* C40: no step clears a bit of the bitfield or changes its length, and
\* load_pieces run on the manager as it stands keeps every bit that is set.
C40_BitsNeverCleared ==
    /\ [][/\ Len(bitfield') = Len(bitfield)
          /\ \A i \in Indices : HasBit(bitfield, i) => HasBit(bitfield', i)]_vars
    /\ [](\A i \in Indices :
            HasBit(bitfield, i) =>
                HasBit(LoadFrom(0, file.data,
                                [map |-> piece_map, bf |-> bitfield, ok |-> io_ok]).bf, i))

\* two bits are set, one of them by add_piece, and since then add_piece has
\* returned false for a bad hash and a piece was cancelled
C40_Witness ==
    /\ \E i \in added, j \in Indices : i # j /\ HasBit(bitfield, i) /\ HasBit(bitfield, j)
    /\ \E c, d \in Workers :
          /\ ret[c].op = "add_piece" /\ ~ret[c].val
          /\ ret[d].op = "cancel_piece"

\* C36: connect_to_peers runs one worker task per peer of the tracker's
\* answer and returns only when every one of them has ended.
C36_ReturnsAfterAllWorkers ==
    /\ DOMAIN wpc = Peers
    /\ supervisor.pc = "returned" => \A w \in Peers : wpc[w] \in Ended

\* connect_to_peers has returned after a task that downloaded its piece and
\* a task that ended with an error
C36_Witness ==
    /\ supervisor.pc = "returned"
    /\ \E v, w \in Peers : wpc[v] = "done" /\ wpc[w] \in {"returned", "failed"}

\* C32: the piece buffer holds the blocks of the Piece messages received,
\* one per Request and in request order: a Piece that answers a Request
\* appends its block, and after k blocks the buffer holds k blocks of bytes.
C32_BufferIsReceivedBlocks ==
    /\ [](\A w \in Peers : Len(piece_buffer[w]) = block_index[w] * MAX_BLOCK_SIZE)
    /\ [][\A w \in Peers :
            (wpc[w] = "request" /\ Len(requests'[w]) > Len(requests[w])
                /\ res'[w].id = Piece)
              => piece_buffer'[w] =
                     piece_buffer[w] \o SubSeq(res'[w].payload, 9, Len(res'[w].payload))]_vars

C31_RequestsCoverPiece ==
    blk_pc = "end" =>
        LET P == FirstPieceLength(blk_piece_length, blk_total_length)
        IN  /\ Len(blk_requests) =
                   (P + MAX_BLOCK_SIZE_BYTES - 1) \div MAX_BLOCK_SIZE_BYTES
            /\ \A k \in 0..(Len(blk_requests) - 1) :
                   blk_requests[k + 1] =
                       <<piece_index, k * MAX_BLOCK_SIZE_BYTES,
                         Min(MAX_BLOCK_SIZE_BYTES, P - k * MAX_BLOCK_SIZE_BYTES)>>

\* C33: the worker writes a Request only after it has written Interested
\* and the peer has sent an Unchoke; no other message ends the wait.
C33_RequestAfterUnchoke ==
    (\E k \in DOMAIN st_written : st_written[k] = "Request") =>
        /\ st_written[1] = "Interested"
        /\ \E j \in DOMAIN st_sent : st_sent[j].type = "Unchoke"

\* C34: when the peer has closed the connection while the worker waits for
\* a reply, download_piece ends.
C34_ClosedEndsWorker ==
    (st_closed /\ st_pc \in Reading) ~> (st_pc \in StreamEnded)

\* C35: the messages the worker has parsed are the messages the peer sent,
\* in sending order, and when every byte has been read none is missing.
C35_ParsedIsSent ==
    /\ Len(st_parsed) <= Len(st_sent)
    /\ \A k \in DOMAIN st_parsed : st_parsed[k] = st_sent[k]
    /\ st_inflight = << >> => st_parsed = st_sent

====
